---- MODULE Spec2Model ----
(***************************************************************************)
(* Scoring engine and monthly snapshot pipeline of chef-ranker             *)
(* (src/lib/scoring.ts and the API routes that drive it).                  *)
(*                                                                         *)
(* Numbers.  Breakdown fields and totals carry one decimal in the code;    *)
(* they are kept here as integers in tenths (56.0 is 560).  Weights are    *)
(* kept in hundredths (0.35 is 35).  Instants (Date values) are integer    *)
(* ticks, TicksPerYear ticks to the calendar year.  A nullable column or   *)
(* optional field is a sequence of length 0 (null) or 1 (the value).       *)
(***************************************************************************)
EXTENDS Integers, Sequences, FiniteSets, TLC

(***************************************************************************)
(* Bounds of the model.                                                    *)
(***************************************************************************)
MaxChefs == 2
MaxEdits == 1
MaxPuts == 1
MaxRecalcs == 2
MaxPublishes == 3
MaxOverlapPublishes == 2
MaxTicks == 1
MaxLedgerRecalcs == 1
MaxWeavePublishes == 1
TicksPerYear == 2

Null == << >>
Some(x) == << x >>
IsNull(o) == Len(o) = 0
Val(o) == o[1]

Min2(a, b) == IF a <= b THEN a ELSE b
Max2(a, b) == IF a >= b THEN a ELSE b

\* Math.round(n / d) for d > 0: JavaScript rounds halves towards +Infinity.
MathRound(n, d) == (2 * n + d) \div (2 * d)

(***************************************************************************)
(* Clock: new Date(), getFullYear(), setFullYear(getFullYear() - 10).      *)
(***************************************************************************)
StartYear == 2026
StartTick == (StartYear + 1) * TicksPerYear - 1
getFullYear(t) == t \div TicksPerYear
WindowYears == 10
\* variant: the cutoff year itself is outside the window
cutoffYearAt_exclusive(t) == getFullYear(t) - WindowYears + 1
cutoffYearAt(t) == getFullYear(t) - WindowYears
cutoffDateAt(t) == t - WindowYears * TicksPerYear

(***************************************************************************)
(* Weights.                                                                *)
(***************************************************************************)
Categories == << "formalAccolades", "careerTrack", "publicSignals", "peerStanding" >>
CategorySet == { Categories[k] : k \in 1..Len(Categories) }

DEFAULT_WEIGHTS ==
  [ formalAccolades |-> 35, careerTrack |-> 25, publicSignals |-> 15, peerStanding |-> 25 ]

\* rows: the ScoringWeight table, a function category -> Null or Some(weight)
getWeights_normalised(rows) ==
  LET w == [ c \in CategorySet |->
               IF c \in DOMAIN rows /\ ~IsNull(rows[c]) THEN Val(rows[c]) ELSE DEFAULT_WEIGHTS[c] ]
      total == w.formalAccolades + w.careerTrack + w.publicSignals + w.peerStanding
  IN  IF total = 0 THEN w ELSE [ c \in CategorySet |-> (w[c] * 100) \div total ]

getWeights(rows) ==
  IF \A c \in DOMAIN rows : IsNull(rows[c])
    THEN DEFAULT_WEIGHTS
    ELSE [ c \in CategorySet |->
             IF c \in DOMAIN rows /\ ~IsNull(rows[c]) THEN Val(rows[c]) ELSE DEFAULT_WEIGHTS[c] ]

(***************************************************************************)
(* parseInt over a string given as a sequence of one-character strings.    *)
(***************************************************************************)
Digits == << "0", "1", "2", "3", "4", "5", "6", "7", "8", "9" >>
IsDigit(ch) == \E d \in 1..10 : Digits[d] = ch
DigitVal(ch) == (CHOOSE d \in 1..10 : Digits[d] = ch) - 1

RECURSIVE SkipSpaces(_)
SkipSpaces(s) == IF Len(s) > 0 /\ s[1] = " " THEN SkipSpaces(Tail(s)) ELSE s

RECURSIVE ReadDigits(_, _)
ReadDigits(s, acc) ==
  IF Len(s) > 0 /\ IsDigit(s[1]) THEN ReadDigits(Tail(s), acc * 10 + DigitVal(s[1])) ELSE acc

\* Null stands for NaN
parseInt(s) ==
  LET t == SkipSpaces(s)
      neg == Len(t) > 0 /\ t[1] = "-"
      u == IF Len(t) > 0 /\ (t[1] = "-" \/ t[1] = "+") THEN Tail(t) ELSE t
  IN IF Len(u) > 0 /\ IsDigit(u[1])
       THEN Some(IF neg THEN 0 - ReadDigits(u, 0) ELSE ReadDigits(u, 0))
       ELSE Null

(***************************************************************************)
(* Breakdown calculator.                                                   *)
(***************************************************************************)
RECURSIVE SumSeq(_)
SumSeq(s) == IF Len(s) = 0 THEN 0 ELSE s[1] + SumSeq(Tail(s))

\* Math.max over a non-empty finite set of numbers
MaxOf(S) == CHOOSE x \in S : \A y \in S : y <= x

\* m.detail || "1": null and the empty string both fall back to "1"
StarsOf(m) ==
  parseInt(IF IsNull(m.detail) \/ Len(Val(m.detail)) = 0 THEN << "1" >> ELSE Val(m.detail))

StarScore(m) ==
  LET stars == StarsOf(m)
  IN IF ~IsNull(stars) /\ Val(stars) = 3 THEN 100
     ELSE IF ~IsNull(stars) /\ Val(stars) = 2 THEN 70
     ELSE 40

\* variant: Michelin stars score nothing
scoreMichelinStars_none(accolades) == 0

scoreMichelinStars(accolades) ==
  LET IsMichelin(a) == a.type = "MICHELIN_STAR"
      michelin == SelectSeq(accolades, IsMichelin)
  IN IF Len(michelin) = 0 THEN 0
     ELSE MaxOf({ 0 } \cup { StarScore(michelin[k]) : k \in 1..Len(michelin) })

scoreAccoladeType(accolades, type, maxScore) ==
  IF \E k \in 1..Len(accolades) : accolades[k].type = type THEN maxScore ELSE 0

\* /chef.*owner|executive|head chef|chef de cuisine/i over the roles the model uses
ExecRoles == { "Executive Chef", "Chef / Owner", "Head Chef", "Chef de Cuisine" }
hasExecRoleTest(role) == role \in ExecRoles

\* a.year ? ... : ... treats null and 0 alike
Truthy(o) == ~IsNull(o) /\ Val(o) # 0
OrZero(o) == IF IsNull(o) THEN 0 ELSE Val(o)

\* chef.accolades.filter((a) => a.year ? a.year >= cutoffYear : a.createdAt >= cutoffDate)
recentAccoladesOf(chef, now) ==
  LET KeepAccolade(a) ==
        IF Truthy(a.year) THEN Val(a.year) >= cutoffYearAt(now)
        ELSE a.createdAt >= cutoffDateAt(now)
  IN SelectSeq(chef.accolades, KeepAccolade)

\* The result is in tenths.
calculateBreakdown(chef, now) ==
  LET cutoffYear == cutoffYearAt(now)
      cutoffDate == cutoffDateAt(now)
      KeepCareer(c) ==
        \/ c.isCurrent
        \/ (Truthy(c.startYear) /\ Val(c.startYear) >= cutoffYear)
        \/ (Truthy(c.endYear) /\ Val(c.endYear) >= cutoffYear)
        \/ c.createdAt >= cutoffDate
      KeepRecent(r) == r.createdAt >= cutoffDate
      recentAccolades == recentAccoladesOf(chef, now)
      recentCareer == SelectSeq(chef.careerEntries, KeepCareer)
      recentSignals == SelectSeq(chef.publicSignals, KeepRecent)
      recentPeers == SelectSeq(chef.peerStandings, KeepRecent)
      \* formal accolades
      michelinScore == scoreMichelinStars(recentAccolades)
      jbScore == scoreAccoladeType(recentAccolades, "JAMES_BEARD", 80)
      w50Score == scoreAccoladeType(recentAccolades, "WORLDS_50_BEST", 90)
      bocuseScore == scoreAccoladeType(recentAccolades, "BOCUSE_DOR", 85)
      otherAccoladeScore == scoreAccoladeType(recentAccolades, "OTHER", 30)
      formalAccolades10 ==
        Min2(1000,
             10 * Max2(Max2(michelinScore, jbScore), Max2(w50Score, bocuseScore))
             + 10 * (IF Len(recentAccolades) > 1
                       THEN Min2(20, (Len(recentAccolades) - 1) * 5) ELSE 0)
             + otherAccoladeScore * 3)
      \* career track
      years == OrZero(chef.yearsExperience)
      yearScore == Min2(40, years * 2)
      positionScore == Min2(30, Len(recentCareer) * 6)
      hasExecRole == \E k \in 1..Len(recentCareer) : hasExecRoleTest(recentCareer[k].role)
      roleScore == IF hasExecRole THEN 30 ELSE 15
      careerTrack10 == 10 * Min2(100, yearScore + positionScore + roleScore)
      \* public signals: signalCount * 15 + min(50, totalSignalValue / 10000)
      totalSignalValue ==
        SumSeq([ k \in 1..Len(recentSignals) |-> OrZero(recentSignals[k].value) ])
      publicSignals10 ==
        Min2(1000,
             Len(recentSignals) * 150
             + (IF totalSignalValue >= 500000 THEN 500 ELSE MathRound(totalSignalValue, 1000)))
      \* peer standing
      CountType(t) == Cardinality({ k \in 1..Len(recentPeers) : recentPeers[k].type = t })
      peerStanding10 ==
        10 * Min2(100, Len(recentPeers) * 10 + CountType("MENTORED") * 15
                       + CountType("COLLABORATION") * 10 + CountType("ENDORSEMENT") * 12)
  IN [ formalAccolades |-> formalAccolades10,
       careerTrack |-> careerTrack10,
       publicSignals |-> publicSignals10,
       peerStanding |-> peerStanding10 ]

\* variant: no bonus for the number of accolades
calculateBreakdownClient_noBonus(chef) ==
  LET IsMichelin(a) == a.type = "MICHELIN_STAR"
      michelin == SelectSeq(chef.accolades, IsMichelin)
      michelinScore == MaxOf({ 0 } \cup { StarScore(michelin[k]) : k \in 1..Len(michelin) })
      Some_(type) == \E k \in 1..Len(chef.accolades) : chef.accolades[k].type = type
      jbScore == IF Some_("JAMES_BEARD") THEN 80 ELSE 0
      w50Score == IF Some_("WORLDS_50_BEST") THEN 90 ELSE 0
      bocuseScore == IF Some_("BOCUSE_DOR") THEN 85 ELSE 0
      otherScore == IF Some_("OTHER") THEN 30 ELSE 0
      formalAccolades10 ==
        Min2(1000,
             10 * Max2(Max2(michelinScore, jbScore), Max2(w50Score, bocuseScore))
             + 0
             + otherScore * 3)
      years == OrZero(chef.yearsExperience)
      yearScore == Min2(40, years * 2)
      positionScore == Min2(30, Len(chef.careerEntries) * 6)
      hasExecRole ==
        \E k \in 1..Len(chef.careerEntries) : hasExecRoleTest(chef.careerEntries[k].role)
      careerTrack10 ==
        10 * Min2(100, yearScore + positionScore + (IF hasExecRole THEN 30 ELSE 15))
      totalSignalValue ==
        SumSeq([ k \in 1..Len(chef.publicSignals) |-> OrZero(chef.publicSignals[k].value) ])
      publicSignals10 ==
        Min2(1000,
             Len(chef.publicSignals) * 150
             + (IF totalSignalValue >= 500000 THEN 500 ELSE MathRound(totalSignalValue, 1000)))
      CountType(t) ==
        Cardinality({ k \in 1..Len(chef.peerStandings) : chef.peerStandings[k].type = t })
      peerStanding10 ==
        10 * Min2(100, Len(chef.peerStandings) * 10 + CountType("MENTORED") * 15
                       + CountType("COLLABORATION") * 10 + CountType("ENDORSEMENT") * 12)
  IN [ formalAccolades |-> formalAccolades10,
       careerTrack |-> careerTrack10,
       publicSignals |-> publicSignals10,
       peerStanding |-> peerStanding10 ]

\* scoring-client.ts: the breakdown without the 10-year window, in tenths
calculateBreakdownClient(chef) ==
  LET IsMichelin(a) == a.type = "MICHELIN_STAR"
      michelin == SelectSeq(chef.accolades, IsMichelin)
      michelinScore == MaxOf({ 0 } \cup { StarScore(michelin[k]) : k \in 1..Len(michelin) })
      Some_(type) == \E k \in 1..Len(chef.accolades) : chef.accolades[k].type = type
      jbScore == IF Some_("JAMES_BEARD") THEN 80 ELSE 0
      w50Score == IF Some_("WORLDS_50_BEST") THEN 90 ELSE 0
      bocuseScore == IF Some_("BOCUSE_DOR") THEN 85 ELSE 0
      otherScore == IF Some_("OTHER") THEN 30 ELSE 0
      formalAccolades10 ==
        Min2(1000,
             10 * Max2(Max2(michelinScore, jbScore), Max2(w50Score, bocuseScore))
             + 10 * (IF Len(chef.accolades) > 1
                       THEN Min2(20, (Len(chef.accolades) - 1) * 5) ELSE 0)
             + otherScore * 3)
      years == OrZero(chef.yearsExperience)
      yearScore == Min2(40, years * 2)
      positionScore == Min2(30, Len(chef.careerEntries) * 6)
      hasExecRole ==
        \E k \in 1..Len(chef.careerEntries) : hasExecRoleTest(chef.careerEntries[k].role)
      careerTrack10 ==
        10 * Min2(100, yearScore + positionScore + (IF hasExecRole THEN 30 ELSE 15))
      totalSignalValue ==
        SumSeq([ k \in 1..Len(chef.publicSignals) |-> OrZero(chef.publicSignals[k].value) ])
      publicSignals10 ==
        Min2(1000,
             Len(chef.publicSignals) * 150
             + (IF totalSignalValue >= 500000 THEN 500 ELSE MathRound(totalSignalValue, 1000)))
      CountType(t) ==
        Cardinality({ k \in 1..Len(chef.peerStandings) : chef.peerStandings[k].type = t })
      peerStanding10 ==
        10 * Min2(100, Len(chef.peerStandings) * 10 + CountType("MENTORED") * 15
                       + CountType("COLLABORATION") * 10 + CountType("ENDORSEMENT") * 12)
  IN [ formalAccolades |-> formalAccolades10,
       careerTrack |-> careerTrack10,
       publicSignals |-> publicSignals10,
       peerStanding |-> peerStanding10 ]

\* orderBy: { <key>: "desc" }: larger keys first, NULL last, equal keys in store order
DescKey(o) == IF IsNull(o) THEN 0 - 1000000 ELSE Val(o)

RECURSIVE insertByKeyDesc(_, _)
insertByKeyDesc(sorted, x) ==
  IF Len(sorted) = 0 THEN << x >>
  ELSE IF sorted[1].key >= x.key
         THEN << sorted[1] >> \o insertByKeyDesc(Tail(sorted), x)
         ELSE << x >> \o sorted

RECURSIVE sortByKeyDesc(_)
sortByKeyDesc(s) ==
  IF Len(s) = 0 THEN << >>
  ELSE insertByKeyDesc(sortByKeyDesc(SubSeq(s, 1, Len(s) - 1)), s[Len(s)])

\* GET /api/chefs/[slug]: the chef with its accolades by year and its career
\* entries by start year, latest first
findChefBySlug(chef) ==
  LET accs == sortByKeyDesc([ k \in 1..Len(chef.accolades) |->
                 [ key |-> DescKey(chef.accolades[k].year), rec |-> chef.accolades[k] ] ])
      career == sortByKeyDesc([ k \in 1..Len(chef.careerEntries) |->
                 [ key |-> DescKey(chef.careerEntries[k].startYear),
                   rec |-> chef.careerEntries[k] ] ])
  IN [ chef EXCEPT !.accolades = [ k \in 1..Len(accs) |-> accs[k].rec ],
                   !.careerEntries = [ k \in 1..Len(career) |-> career[k].rec ] ]

\* variant: the four fields added up, the weights left out
calculateTotalScore_unweighted(breakdown, weights) ==
  breakdown.formalAccolades + breakdown.careerTrack
  + breakdown.publicSignals + breakdown.peerStanding

\* breakdown in tenths, weights in hundredths, result in tenths
calculateTotalScore(breakdown, weights) ==
  MathRound(breakdown.formalAccolades * weights.formalAccolades
            + breakdown.careerTrack * weights.careerTrack
            + breakdown.publicSignals * weights.publicSignals
            + breakdown.peerStanding * weights.peerStanding, 100)


(***************************************************************************)
(* Record sets a chef can hold (accolades, career entries, public signals, *)
(* peer standings, yearsExperience).  A chef's records are named by an     *)
(* index into this catalogue.                                              *)
(***************************************************************************)
Str3Stars == << "3", " ", "s", "t", "a", "r", "s" >>
Str2Stars == << "2", " ", "s", "t", "a", "r", "s" >>
\* free text that holds a 3 but does not start with it
StrTop3 == << "t", "o", "p", " ", "3" >>

NoRecords ==
  [ accolades |-> << >>, careerEntries |-> << >>, publicSignals |-> << >>,
    peerStandings |-> << >>, yearsExperience |-> Null ]

\* one three-star accolade dated StartYear - 10: inside the window in StartYear only
StarredRecords ==
  [ NoRecords EXCEPT !.accolades =
      << [ type |-> "MICHELIN_STAR", detail |-> Some(Str3Stars),
           year |-> Some(StartYear - WindowYears), createdAt |-> StartTick - 1 ] >> ]

ExecutiveRecords ==
  [ NoRecords EXCEPT
      !.careerEntries =
        << [ isCurrent |-> TRUE, startYear |-> Null, endYear |-> Null,
             role |-> "Executive Chef", createdAt |-> StartTick - 1 ] >>,
      !.yearsExperience = Some(10) ]

Profiles == << NoRecords, StarredRecords, ExecutiveRecords >>
ProfileIds == 1..Len(Profiles)

\* request bodies of PUT /api/scoring: category -> weight (hundredths)
WeightBodies ==
  << [ formalAccolades |-> 5, careerTrack |-> 60 ] >>

\* months a snapshot is published for, as the strings the routes accept
Months == << << "2", "0", "2", "5", "-", "1", "2" >>,
             << "2", "0", "2", "6", "-", "0", "1" >>,
             << "2", "0", "2", "6", "-", "0", "2" >> >>
MonthIds == 1..Len(Months)

\* month strings the routes refuse: empty, short month, long month, wrong separator
MalformedMonths == << << >>,
                      << "2", "0", "2", "6", "-", "1" >>,
                      << "2", "0", "2", "6", "-", "0", "1", "1" >>,
                      << "2", "0", "2", "6", "/", "0", "1" >> >>
MalformedIds == (Len(Months) + 1)..(Len(Months) + Len(MalformedMonths))
MonthText(m) == IF m \in MonthIds THEN Months[m] ELSE MalformedMonths[m - Len(Months)]
NotesIn == { Some("n") }
\* notes left out (undefined), and two different notes
NotesAll == { Null, Some("n"), Some("o") }

\* string comparison a < b of the store (code-unit order over the model's alphabet)
Alphabet == << "-", "0", "1", "2", "3", "4", "5", "6", "7", "8", "9" >>
Code(ch) == CHOOSE k \in 1..Len(Alphabet) : Alphabet[k] = ch
RECURSIVE StrLess(_, _)
StrLess(a, b) ==
  IF Len(b) = 0 THEN FALSE
  ELSE IF Len(a) = 0 THEN TRUE
  ELSE IF a[1] = b[1] THEN StrLess(Tail(a), Tail(b))
  ELSE Code(a[1]) < Code(b[1])

(***************************************************************************)
(* State.                                                                  *)
(***************************************************************************)
ChefIds == 1..MaxChefs
Jobs == { 1, 2 }

VARIABLES
  chefs,       \* Chef table: id -> [created, isArchived, recs, totalScore, rank]
  weightRows,  \* ScoringWeight table: category -> Null | Some(weight)
  snapshots,   \* MonthlySnapshot table: month id -> Null | Some([id, notes, publishedAt])
  entries,     \* SnapshotEntry table: snapshot id -> chef id -> Null | Some(entry)
  now,         \* the clock
  jobs,        \* requests in flight: their position and locals
  left,        \* how many more edits, weight updates, recalculations, publishes, ticks
  last,        \* history: the latest completed recalculation (see NoRun)
  calc         \* one call of the scoring functions on its own: arguments and results

vars == << chefs, weightRows, snapshots, entries, now, jobs, left, last, calc >>

IdleJob ==
  [ pc |-> "idle", kind |-> "none", body |-> 0, k |-> 0,
    listed |-> << >>, weights |-> Null, scored |-> << >>, scoredAt |-> 0,
    month |-> 0, notes |-> Null, prevMonth |-> 0, prevRankMap |-> << >>, snapId |-> 0,
    resp |-> Null,
    alone |-> TRUE, roster |-> TRUE, quiet |-> TRUE, base |-> Null, archivedAtStart |-> { },
    prior |-> << >>, heals |-> FALSE, earlier |-> Null ]

\* last.alone: the latest recalculation to complete ran with no other one in flight;
\* last.fresh: it ran undisturbed and no chef, record or weight has changed since,
\* and then last.res holds the (totalScore, rank) it left and last.at when it scored
NoRun == [ alone |-> TRUE, fresh |-> FALSE, res |-> << >>, at |-> 0 ]
Stale(l) == [ l EXCEPT !.fresh = FALSE, !.res = << >>, !.at = 0 ]

NoBreakdown == [ formalAccolades |-> 0, careerTrack |-> 0, publicSignals |-> 0, peerStanding |-> 0 ]
NoCalc == [ phase |-> "none", chef |-> NoRecords, rows |-> [ c \in CategorySet |-> Null ],
            weights |-> DEFAULT_WEIGHTS, michelin |-> 0, breakdown |-> NoBreakdown,
            total |-> 0, boosted |-> 0, shown |-> Null ]

BatchPcs == { "list", "score", "write" }
SnapPcs == { "sList", "sWeights", "sPrev", "sUpsert", "sDelete", "sCreate" }
Running(j) == jobs[j].pc \in BatchPcs \cup SnapPcs

\* the store after the migrations: no chef, no weight row, no snapshot
InitTables ==
  /\ chefs = [ c \in ChefIds |->
                 [ created |-> FALSE, isArchived |-> FALSE, recs |-> 1,
                   totalScore |-> 0, rank |-> Null ] ]
  /\ weightRows = [ c \in CategorySet |-> Null ]
  /\ snapshots = [ m \in MonthIds |-> Null ]
  /\ entries = [ s \in MonthIds |-> [ c \in ChefIds |-> Null ] ]
  /\ now = StartTick
  /\ jobs = [ j \in Jobs |-> IdleJob ]
  /\ last = NoRun

InitStore ==
  /\ InitTables
  /\ calc = NoCalc

Init ==
  /\ InitStore
  /\ left = [ edits |-> MaxEdits, puts |-> MaxPuts, recalcs |-> MaxRecalcs,
              publishes |-> MaxPublishes, ticks |-> MaxTicks ]

(***************************************************************************)
(* Bookkeeping of what happened while a request was in flight (history     *)
(* only: no action reads it to decide what the program does).              *)
(*   alone  - no other recalculation or snapshot call has been in flight   *)
(*            since this request began its recalculation                   *)
(*   roster - no chef has been created or archived since then              *)
(*   quiet  - no record edit and no weight write since then                *)
(*   base   - last, as it was when the recalculation began                 *)
(*   archivedAtStart - the chefs that were archived at that moment         *)
(*   prior  - totalScore and rank of every chef at that moment, kept while *)
(*            the recalculation lasts                                      *)
(*   heals  - two non-archived chefs held the same rank at that moment     *)
(*   earlier - what the month held when the snapshot call upserted its row: *)
(*            the row (Null for a new month), the chefs with an entry, and  *)
(*            the time of the upsert                                        *)
(***************************************************************************)
Tracking(j) == jobs[j].pc \notin { "idle", "put" }

Noted(js, field) ==
  [ j \in Jobs |-> IF js[j].pc \notin { "idle", "put" }
                     THEN [ js[j] EXCEPT ![field] = FALSE ] ELSE js[j] ]

(***************************************************************************)
(* Chef and record routes (single store writes).                           *)
(***************************************************************************)
\* POST /api/chefs
CreateChef(c) ==
  /\ ~chefs[c].created
  /\ \A d \in ChefIds : d < c => chefs[d].created
  /\ chefs' = [ chefs EXCEPT ![c] = [ created |-> TRUE, isArchived |-> FALSE, recs |-> 1,
                                      totalScore |-> 0, rank |-> Null ] ]
  /\ jobs' = Noted(jobs, "roster")
  /\ last' = Stale(last)
  /\ UNCHANGED << calc, weightRows, snapshots, entries, now, left >>

\* DELETE /api/chefs/[slug]
ArchiveChef(c) ==
  /\ chefs[c].created
  /\ ~chefs[c].isArchived
  /\ chefs' = [ chefs EXCEPT ![c].isArchived = TRUE ]
  /\ jobs' = Noted(jobs, "roster")
  /\ last' = Stale(last)
  /\ UNCHANGED << calc, weightRows, snapshots, entries, now, left >>

\* record routes (accolades, career, signals, peers, PUT /api/chefs/[slug]):
\* the chef's record set becomes another one of the catalogue
EditRecords(c, p) ==
  /\ chefs[c].created
  /\ chefs[c].recs # p
  /\ left.edits > 0
  /\ chefs' = [ chefs EXCEPT ![c].recs = p ]
  /\ left' = [ left EXCEPT !.edits = @ - 1 ]
  /\ jobs' = Noted(jobs, "quiet")
  /\ last' = Stale(last)
  /\ UNCHANGED << calc, weightRows, snapshots, entries, now >>

Tick ==
  /\ left.ticks > 0
  /\ now' = now + 1
  /\ left' = [ left EXCEPT !.ticks = @ - 1 ]
  /\ UNCHANGED << calc, chefs, weightRows, snapshots, entries, jobs, last >>

(***************************************************************************)
(* recalculateAllScores.                                                   *)
(***************************************************************************)
\* variant: findMany without the isArchived filter
RECURSIVE listActiveFrom_all(_, _)
listActiveFrom_all(tbl, c) ==
  IF c > MaxChefs THEN << >>
  ELSE (IF tbl[c].created
          THEN << [ id |-> c, recs |-> tbl[c].recs, rank |-> tbl[c].rank ] >> ELSE << >>)
       \o listActiveFrom_all(tbl, c + 1)

\* prisma.chef.findMany({ where: { isArchived: false } }): store (insertion) order
RECURSIVE listActiveFrom(_, _)
listActiveFrom(tbl, c) ==
  IF c > MaxChefs THEN << >>
  ELSE (IF tbl[c].created /\ ~tbl[c].isArchived
          THEN << [ id |-> c, recs |-> tbl[c].recs, rank |-> tbl[c].rank ] >> ELSE << >>)
       \o listActiveFrom(tbl, c + 1)

listActiveChefs(tbl) == listActiveFrom(tbl, 1)

\* variant: the rank a chef holds is added to its new total
scoreChefs_rankBonus(listed, weights, t) ==
  [ k \in 1..Len(listed) |->
      LET breakdown == calculateBreakdown(Profiles[listed[k].recs], t)
      IN [ id |-> listed[k].id,
           total |-> calculateTotalScore(breakdown, weights)
                     + (IF IsNull(listed[k].rank) THEN 0 ELSE Val(listed[k].rank)),
           breakdown |-> breakdown ] ]

\* chefs.map(...) of recalculateAllScores
\* variant: totals worked out under the default weights, whatever is stored
scoreChefs_defaultWeights(listed, weights, t) ==
  [ k \in 1..Len(listed) |->
      LET breakdown == calculateBreakdown(Profiles[listed[k].recs], t)
      IN [ id |-> listed[k].id, total |-> calculateTotalScore(breakdown, DEFAULT_WEIGHTS),
           breakdown |-> breakdown ] ]

scoreChefs(listed, weights, t) ==
  [ k \in 1..Len(listed) |->
      LET breakdown == calculateBreakdown(Profiles[listed[k].recs], t)
      IN [ id |-> listed[k].id, total |-> calculateTotalScore(breakdown, weights),
           breakdown |-> breakdown ] ]

\* variant: a sort that is not stable (equal totals end up in reverse order)
RECURSIVE insertByTotal_unstable(_, _)
insertByTotal_unstable(sorted, x) ==
  IF Len(sorted) = 0 THEN << x >>
  ELSE IF sorted[1].total > x.total
         THEN << sorted[1] >> \o insertByTotal_unstable(Tail(sorted), x)
         ELSE << x >> \o sorted

\* variant: comparator a.total - b.total (ascending)
RECURSIVE insertByTotal_ascending(_, _)
insertByTotal_ascending(sorted, x) ==
  IF Len(sorted) = 0 THEN << x >>
  ELSE IF sorted[1].total <= x.total
         THEN << sorted[1] >> \o insertByTotal_ascending(Tail(sorted), x)
         ELSE << x >> \o sorted

\* scored.sort((a, b) => b.total - a.total): Array.prototype.sort is stable
RECURSIVE insertByTotal(_, _)
insertByTotal(sorted, x) ==
  IF Len(sorted) = 0 THEN << x >>
  ELSE IF sorted[1].total >= x.total
         THEN << sorted[1] >> \o insertByTotal(Tail(sorted), x)
         ELSE << x >> \o sorted

RECURSIVE sortByTotalDesc(_)
sortByTotalDesc(s) ==
  IF Len(s) = 0 THEN << >>
  ELSE insertByTotal(sortByTotalDesc(SubSeq(s, 1, Len(s) - 1)), s[Len(s)])

\* the history entry of a recalculation of request job that completes leaving table tbl
Completed(job, tbl, at) ==
  IF job.alone /\ job.roster /\ job.quiet
    THEN [ alone |-> TRUE, fresh |-> TRUE,
           res |-> [ c \in ChefIds |-> << tbl[c].totalScore, tbl[c].rank >> ], at |-> at ]
    ELSE [ NoRun EXCEPT !.alone = job.alone ]

\* where a request goes once its recalculation is over
AfterBatch(kind) ==
  CASE kind = "recalc" -> "done"
    [] kind = "put" -> "putGet"
    [] kind = "snapshot" -> "sList"

\* two non-archived chefs of the table hold the same rank
SharedRank(tbl) ==
  \E a, b \in ChefIds :
    /\ a # b
    /\ tbl[a].created /\ ~tbl[a].isArchived
    /\ tbl[b].created /\ ~tbl[b].isArchived
    /\ ~IsNull(tbl[a].rank) /\ tbl[a].rank = tbl[b].rank

\* the request j, in state job, issues the findMany of recalculateAllScores;
\* prior is the table as the run found it (kept while the run lasts), heals whether
\* the run found two non-archived chefs on one rank
BeginBatch(j, job) ==
  LET others == \A k \in Jobs \ { j } : ~Running(k)
      mine == [ job EXCEPT !.pc = "score", !.listed = listActiveChefs(chefs),
                           !.alone = others, !.roster = TRUE, !.quiet = TRUE,
                           !.base = IF others /\ last.fresh THEN Some(last) ELSE Null,
                           !.archivedAtStart = { c \in ChefIds : chefs[c].isArchived },
                           !.prior = [ c \in ChefIds |->
                                         << chefs[c].totalScore, chefs[c].rank >> ],
                           !.heals = SharedRank(chefs) ]
  IN jobs' = [ Noted(jobs, "alone") EXCEPT ![j] = mine ]

FreeSlot(j) ==
  /\ jobs[j].pc = "idle"
  /\ \A k \in Jobs : k < j => jobs[k].pc # "idle"

\* POST /api/scoring/recalculate
StartRecalculate(j) ==
  /\ FreeSlot(j)
  /\ left.recalcs > 0
  /\ left' = [ left EXCEPT !.recalcs = @ - 1 ]
  /\ BeginBatch(j, [ jobs[j] EXCEPT !.kind = "recalc" ])
  /\ UNCHANGED << calc, chefs, weightRows, snapshots, entries, now, last >>

\* the findMany of a recalculation that follows other steps of its request
RecalcList(j) ==
  /\ jobs[j].pc = "list"
  /\ BeginBatch(j, jobs[j])
  /\ UNCHANGED << calc, chefs, weightRows, snapshots, entries, now, left, last >>

\* getWeights(), then the synchronous map and sort
RecalcScore(j) ==
  /\ jobs[j].pc = "score"
  /\ LET weights == getWeights(weightRows)
         scored == sortByTotalDesc(scoreChefs(jobs[j].listed, weights, now))
     IN jobs' = [ jobs EXCEPT ![j] =
                    [ @ EXCEPT !.weights = Some(weights), !.scored = scored,
                               !.scoredAt = now, !.listed = << >>, !.k = 1,
                               !.prior = IF Len(scored) = 0 THEN << >> ELSE @,
                               !.pc = IF Len(scored) = 0 THEN AfterBatch(jobs[j].kind)
                                      ELSE "write" ] ]
  /\ last' = IF Len(jobs[j].listed) > 0 THEN last ELSE Completed(jobs[j], chefs, now)
  /\ UNCHANGED << calc, chefs, weightRows, snapshots, entries, now, left >>

\* variant: standard competition ranking (equal totals share a rank)
rankUpdate_competition(job) ==
  [ id |-> job.scored[job.k].id, totalScore |-> job.scored[job.k].total,
    rank |-> Some(1 + Cardinality({ i \in 1..Len(job.scored) :
                                      job.scored[i].total > job.scored[job.k].total })) ]

\* variant: ranks counted from zero
rankUpdate_zeroBased(job) ==
  [ id |-> job.scored[job.k].id, totalScore |-> job.scored[job.k].total,
    rank |-> Some(job.k - 1) ]

\* variant: the total is worked out in the loop from the weights stored at that moment
rankUpdate_lateWeights(job) ==
  [ id |-> job.scored[job.k].id,
    totalScore |-> calculateTotalScore(job.scored[job.k].breakdown, getWeights(weightRows)),
    rank |-> Some(job.k) ]

\* variant: a chef that has a rank keeps it
rankUpdate_keepRank(job) ==
  LET id == job.scored[job.k].id
  IN [ id |-> id, totalScore |-> job.scored[job.k].total,
       rank |-> IF IsNull(job.prior[id][2]) THEN Some(job.k) ELSE job.prior[id][2] ]

\* data of the prisma.chef.update at position job.k (i + 1 of the code)
rankUpdate(job) ==
  [ id |-> job.scored[job.k].id, totalScore |-> job.scored[job.k].total,
    rank |-> Some(job.k) ]

\* one prisma.chef.update of the rank-writing loop
RecalcWrite(j) ==
  /\ jobs[j].pc = "write"
  /\ LET job == jobs[j]
         row == rankUpdate(job)
         finished == job.k = Len(job.scored)
     IN /\ chefs' = [ chefs EXCEPT ![row.id].totalScore = row.totalScore,
                                   ![row.id].rank = row.rank ]
        /\ jobs' = [ jobs EXCEPT ![j].k = @ + 1,
                                 ![j].prior = IF finished THEN << >> ELSE @,
                                 ![j].pc = IF finished THEN AfterBatch(job.kind) ELSE "write" ]
        /\ last' = IF finished THEN Completed(job, chefs', job.scoredAt) ELSE Stale(last)
  /\ UNCHANGED << calc, weightRows, snapshots, entries, now, left >>

(***************************************************************************)
(* recalculateAllScores when a store call rejects: nothing catches it, the *)
(* promise of the function rejects where it stands.                        *)
(***************************************************************************)
\* variant: the read is tried again
afterReadError_retry(job) == [ job EXCEPT !.pc = "list" ]

\* the call's state once findMany or getWeights has thrown
afterReadError(job) == [ job EXCEPT !.pc = "failed" ]

\* variant: the writes of the run are undone
afterWriteError_rollback(tbl, job) ==
  [ c \in ChefIds |-> [ tbl[c] EXCEPT !.totalScore = job.prior[c][1],
                                      !.rank = job.prior[c][2] ] ]

\* the Chef table once a prisma.chef.update of the loop has thrown
afterWriteError(tbl, job) == tbl

\* prisma.chef.findMany rejects
StartRecalculateFails(j) ==
  /\ FreeSlot(j)
  /\ left.recalcs > 0
  /\ left' = [ left EXCEPT !.recalcs = @ - 1 ]
  /\ jobs' = [ jobs EXCEPT ![j] = afterReadError([ jobs[j] EXCEPT !.kind = "recalc" ]) ]
  /\ UNCHANGED << calc, chefs, weightRows, snapshots, entries, now, last >>

\* getWeights rejects
RecalcWeightsFail(j) ==
  /\ jobs[j].pc = "score"
  /\ jobs[j].kind = "recalc"
  /\ jobs' = [ jobs EXCEPT ![j] = afterReadError(jobs[j]) ]
  /\ UNCHANGED << calc, chefs, weightRows, snapshots, entries, now, left, last >>

\* the prisma.chef.update at position k rejects
RecalcWriteFails(j) ==
  /\ jobs[j].pc = "write"
  /\ jobs[j].kind = "recalc"
  /\ chefs' = afterWriteError(chefs, jobs[j])
  /\ jobs' = [ jobs EXCEPT ![j].pc = "failed" ]
  /\ last' = [ NoRun EXCEPT !.alone = FALSE ]
  /\ UNCHANGED << calc, weightRows, snapshots, entries, now, left >>

(***************************************************************************)
(* PUT /api/scoring.                                                       *)
(***************************************************************************)
BodyCategories(b) ==
  LET InBody(c) == c \in DOMAIN WeightBodies[b] IN SelectSeq(Categories, InBody)

\* one prisma.scoringWeight.upsert of the request's loop
Upsert(j, job) ==
  LET cats == BodyCategories(job.body)
      cat == cats[job.k]
  IN /\ weightRows' = [ weightRows EXCEPT ![cat] = Some(WeightBodies[job.body][cat]) ]
     /\ jobs' = [ Noted(jobs, "quiet") EXCEPT ![j] =
                    [ job EXCEPT !.k = @ + 1,
                                 !.pc = IF job.k = Len(cats) THEN "list" ELSE "put" ] ]
     /\ last' = Stale(last)

StartPutWeights(j, b) ==
  /\ FreeSlot(j)
  /\ left.puts > 0
  /\ left' = [ left EXCEPT !.puts = @ - 1 ]
  /\ Upsert(j, [ jobs[j] EXCEPT !.kind = "put", !.body = b, !.k = 1 ])
  /\ UNCHANGED << calc, chefs, snapshots, entries, now >>

PutUpsert(j) ==
  /\ jobs[j].pc = "put"
  /\ Upsert(j, jobs[j])
  /\ UNCHANGED << calc, chefs, snapshots, entries, now, left >>

\* the closing getWeights() whose result is the response
PutGet(j) ==
  /\ jobs[j].pc = "putGet"
  /\ jobs' = [ jobs EXCEPT ![j].pc = "done", ![j].resp = Some(getWeights(weightRows)) ]
  /\ UNCHANGED << calc, chefs, weightRows, snapshots, entries, now, left, last >>


(***************************************************************************)
(* createMonthlySnapshot (POST /api/snapshots, POST /api/update/publish).  *)
(***************************************************************************)
\* s after n leading digits (\d{n}), Null when it does not start with n digits
RECURSIVE matchDigits(_, _)
matchDigits(s, n) ==
  IF n = 0 THEN Some(s)
  ELSE IF Len(s) > 0 /\ IsDigit(s[1]) THEN matchDigits(Tail(s), n - 1)
  ELSE Null

\* variant: the pattern without its closing anchor, /^\d{4}-\d{2}/
monthPatternTest_unanchored(s) ==
  LET year == matchDigits(s, 4)
      dash == IF ~IsNull(year) /\ Len(Val(year)) > 0 /\ Val(year)[1] = "-"
                THEN Some(Tail(Val(year))) ELSE Null
      month == IF IsNull(dash) THEN Null ELSE matchDigits(Val(dash), 2)
  IN ~IsNull(month)

\* /^\d{4}-\d{2}$/.test(month)
monthPatternTest(s) ==
  LET year == matchDigits(s, 4)
      dash == IF ~IsNull(year) /\ Len(Val(year)) > 0 /\ Val(year)[1] = "-"
                THEN Some(Tail(Val(year))) ELSE Null
      month == IF IsNull(dash) THEN Null ELSE matchDigits(Val(dash), 2)
  IN ~IsNull(month) /\ Len(Val(month)) = 0

\* !month || !/^\d{4}-\d{2}$/.test(month): the route answers 400
refusesMonth(s) == Len(s) = 0 \/ ~monthPatternTest(s)

\* the route answers 400 and calls nothing
RejectPublish(j, m, n) ==
  /\ FreeSlot(j)
  /\ refusesMonth(MonthText(m))
  /\ jobs' = [ jobs EXCEPT ![j] = [ @ EXCEPT !.pc = "rejected", !.kind = "snapshot",
                                              !.month = m, !.notes = n ] ]
  /\ UNCHANGED << calc, chefs, weightRows, snapshots, entries, now, left, last >>

StartPublish(j, m, n) ==
  /\ FreeSlot(j)
  /\ ~refusesMonth(MonthText(m))
  /\ left.publishes > 0
  /\ left' = [ left EXCEPT !.publishes = @ - 1 ]
  /\ BeginBatch(j, [ jobs[j] EXCEPT !.kind = "snapshot", !.month = m, !.notes = n ])
  /\ UNCHANGED << calc, chefs, weightRows, snapshots, entries, now, last >>

\* orderBy: { rank: "asc" }: NULL sorts first, equal keys stay in store order
RankKey(r) == IF IsNull(r) THEN 0 ELSE Val(r)

RECURSIVE insertByRank(_, _)
insertByRank(sorted, x) ==
  IF Len(sorted) = 0 THEN << x >>
  ELSE IF RankKey(sorted[1].rank) <= RankKey(x.rank)
         THEN << sorted[1] >> \o insertByRank(Tail(sorted), x)
         ELSE << x >> \o sorted

RECURSIVE sortByRankAsc(_)
sortByRankAsc(s) ==
  IF Len(s) = 0 THEN << >>
  ELSE insertByRank(sortByRankAsc(SubSeq(s, 1, Len(s) - 1)), s[Len(s)])

SnapList(j) ==
  /\ jobs[j].pc = "sList"
  /\ jobs' = [ jobs EXCEPT ![j].pc = "sWeights",
                           ![j].listed = sortByRankAsc(listActiveChefs(chefs)) ]
  /\ UNCHANGED << calc, chefs, weightRows, snapshots, entries, now, left, last >>

\* variant: the entries are scored under the default weights
SnapWeights_defaults(j) ==
  /\ jobs[j].pc = "sWeights"
  /\ jobs' = [ jobs EXCEPT ![j].pc = "sPrev", ![j].weights = Some(DEFAULT_WEIGHTS) ]
  /\ UNCHANGED << calc, chefs, weightRows, snapshots, entries, now, left, last >>

SnapWeights(j) ==
  /\ jobs[j].pc = "sWeights"
  /\ jobs' = [ jobs EXCEPT ![j].pc = "sPrev", ![j].weights = Some(getWeights(weightRows)) ]
  /\ UNCHANGED << calc, chefs, weightRows, snapshots, entries, now, left, last >>

\* variant: where: { month: { lte: month } }
findPrevSnapshot_lte(snaps, m) ==
  LET cands == { o \in MonthIds : ~IsNull(snaps[o]) /\ ~StrLess(Months[m], Months[o]) }
  IN IF cands = { } THEN 0
     ELSE CHOOSE o \in cands : \A q \in cands : q = o \/ StrLess(Months[q], Months[o])

\* monthlySnapshot.findFirst({ where: { month: { lt: month } }, orderBy: { month: "desc" } })
\* 0 when there is none
findPrevSnapshot(snaps, m) ==
  LET cands == { o \in MonthIds : ~IsNull(snaps[o]) /\ StrLess(Months[o], Months[m]) }
  IN IF cands = { } THEN 0
     ELSE CHOOSE o \in cands : \A q \in cands : q = o \/ StrLess(Months[q], Months[o])

\* prevRankMap: chef id -> Null | Some(rank in the previous snapshot)
buildPrevRankMap(snaps, ents, pm) ==
  [ c \in ChefIds |->
      IF pm = 0 \/ IsNull(ents[Val(snaps[pm]).id][c]) THEN Null
      ELSE Some(Val(ents[Val(snaps[pm]).id][c]).rank) ]

SnapPrev(j) ==
  /\ jobs[j].pc = "sPrev"
  /\ LET pm == findPrevSnapshot(snapshots, jobs[j].month)
     IN jobs' = [ jobs EXCEPT ![j].pc = "sUpsert", ![j].prevMonth = pm,
                              ![j].prevRankMap = buildPrevRankMap(snapshots, entries, pm) ]
  /\ UNCHANGED << calc, chefs, weightRows, snapshots, entries, now, left, last >>

\* variant: the row of the month is replaced by a newly created one
upsertSnapshot_recreate(snaps, m, n, t) ==
  [ id |-> Cardinality({ o \in MonthIds : ~IsNull(snaps[o]) }) + 1,
    notes |-> n, publishedAt |-> t ]

\* variant: every created row gets the same id
upsertSnapshot_sameId(snaps, m, n, t) ==
  IF IsNull(snaps[m])
    THEN [ id |-> 1, notes |-> n, publishedAt |-> t ]
    ELSE [ Val(snaps[m]) EXCEPT !.notes = IF IsNull(n) THEN @ ELSE n, !.publishedAt = t ]

\* monthlySnapshot.upsert: an undefined notes leaves the stored notes as they are
upsertSnapshot(snaps, m, n, t) ==
  IF IsNull(snaps[m])
    THEN [ id |-> Cardinality({ o \in MonthIds : ~IsNull(snaps[o]) }) + 1,
           notes |-> n, publishedAt |-> t ]
    ELSE [ Val(snaps[m]) EXCEPT !.notes = IF IsNull(n) THEN @ ELSE n, !.publishedAt = t ]

SnapUpsert(j) ==
  /\ jobs[j].pc = "sUpsert"
  /\ LET row == upsertSnapshot(snapshots, jobs[j].month, jobs[j].notes, now)
     IN /\ snapshots' = [ snapshots EXCEPT ![jobs[j].month] = Some(row) ]
        /\ jobs' = [ jobs EXCEPT ![j].pc = "sDelete", ![j].snapId = row.id,
                                 ![j].earlier =
                                   Some([ row |-> snapshots[jobs[j].month],
                                          chefs |-> { c \in ChefIds :
                                                       ~IsNull(entries[row.id][c]) },
                                          at |-> now ]) ]
  /\ UNCHANGED << calc, chefs, weightRows, entries, now, left, last >>

\* variant: nothing is deleted
deleteEntries_none(ents, sid) == ents

\* variant: deleteMany without its where clause
deleteEntries_all(ents, sid) == [ s \in DOMAIN ents |-> [ c \in ChefIds |-> Null ] ]

\* snapshotEntry.deleteMany({ where: { snapshotId } })
deleteEntries(ents, sid) == [ ents EXCEPT ![sid] = [ c \in ChefIds |-> Null ] ]

SnapDelete(j) ==
  /\ jobs[j].pc = "sDelete"
  /\ entries' = deleteEntries(entries, jobs[j].snapId)
  /\ jobs' = [ jobs EXCEPT ![j].k = 1,
                           ![j].pc = IF Len(jobs[j].listed) = 0 THEN "done" ELSE "sCreate" ]
  /\ UNCHANGED << calc, chefs, weightRows, snapshots, now, left, last >>

\* variant: chef.rank - prevRank
deltaOf_reversed(prevRank, rank) ==
  IF Truthy(prevRank) /\ Truthy(rank) THEN Some(Val(rank) - Val(prevRank)) ELSE Null

\* variant: (prevRank ?? chef.rank) - chef.rank
deltaOf_zeroWhenNew(prevRank, rank) ==
  IF Truthy(prevRank) /\ Truthy(rank) THEN Some(Val(prevRank) - Val(rank)) ELSE Some(0)

\* prevRank && chef.rank ? prevRank - chef.rank : null
deltaOf(prevRank, rank) ==
  IF Truthy(prevRank) /\ Truthy(rank) THEN Some(Val(prevRank) - Val(rank)) ELSE Null

\* JSON.stringify(breakdown): the four fields in key order
stringifyBreakdown(b) ==
  << b.formalAccolades, b.careerTrack, b.publicSignals, b.peerStanding >>

\* variant: a chef without a rank gets an entry of rank 0
SnapCreate_nullRank(j) ==
  /\ jobs[j].pc = "sCreate"
  /\ LET job == jobs[j]
         chef == job.listed[job.k]
         breakdown == calculateBreakdown(Profiles[chef.recs], now)
         total == calculateTotalScore(breakdown, Val(job.weights))
         delta == deltaOf(job.prevRankMap[chef.id], chef.rank)
         throws == ~IsNull(entries[job.snapId][chef.id])
     IN IF throws
          THEN /\ jobs' = [ jobs EXCEPT ![j].pc = "failed" ]
               /\ UNCHANGED entries
          ELSE /\ entries' = [ entries EXCEPT ![job.snapId][chef.id] =
                                 Some([ rank |-> IF IsNull(chef.rank) THEN 0 ELSE Val(chef.rank),
                                        totalScore |-> total,
                                        breakdown |-> stringifyBreakdown(breakdown),
                                        delta |-> delta ]) ]
               /\ jobs' = [ jobs EXCEPT ![j].k = @ + 1,
                                        ![j].pc = IF job.k = Len(job.listed)
                                                    THEN "done" ELSE "sCreate" ]
  /\ UNCHANGED << calc, chefs, weightRows, snapshots, now, left, last >>

\* one iteration of the entry-writing loop; the create throws on a null rank
\* (rank is NOT NULL) and on an entry that exists (unique snapshotId, chefId)
SnapCreate(j) ==
  /\ jobs[j].pc = "sCreate"
  /\ LET job == jobs[j]
         chef == job.listed[job.k]
         breakdown == calculateBreakdown(Profiles[chef.recs], now)
         total == calculateTotalScore(breakdown, Val(job.weights))
         delta == deltaOf(job.prevRankMap[chef.id], chef.rank)
         throws == IsNull(chef.rank) \/ ~IsNull(entries[job.snapId][chef.id])
     IN IF throws
          THEN /\ jobs' = [ jobs EXCEPT ![j].pc = "failed" ]
               /\ UNCHANGED entries
          ELSE /\ entries' = [ entries EXCEPT ![job.snapId][chef.id] =
                                 Some([ rank |-> Val(chef.rank), totalScore |-> total,
                                        breakdown |-> stringifyBreakdown(breakdown),
                                        delta |-> delta ]) ]
               /\ jobs' = [ jobs EXCEPT ![j].k = @ + 1,
                                        ![j].pc = IF job.k = Len(job.listed)
                                                    THEN "done" ELSE "sCreate" ]
  /\ UNCHANGED << calc, chefs, weightRows, snapshots, now, left, last >>

\* variant: the entries the call has written are removed when a create rejects
afterCreateError_undo(ents, job) == [ ents EXCEPT ![job.snapId] = [ c \in ChefIds |-> Null ] ]

\* a rejected snapshotEntry.create leaves the loop and the call; the publish route
\* logs and reports the error, and no store write is undone
afterCreateError(ents, job) == ents

\* the snapshotEntry.create at position k rejects
SnapCreateFails(j) ==
  /\ jobs[j].pc = "sCreate"
  /\ entries' = afterCreateError(entries, jobs[j])
  /\ jobs' = [ jobs EXCEPT ![j].pc = "failed" ]
  /\ UNCHANGED << calc, chefs, weightRows, snapshots, now, left, last >>

\* GET /api/chefs: the non-archived chefs with totalScore and rank, by rank
RECURSIVE listRankingsFrom(_, _)
listRankingsFrom(tbl, c) ==
  IF c > MaxChefs THEN << >>
  ELSE (IF tbl[c].created /\ ~tbl[c].isArchived
          THEN << [ id |-> c, totalScore |-> tbl[c].totalScore, rank |-> tbl[c].rank ] >>
          ELSE << >>)
       \o listRankingsFrom(tbl, c + 1)

listRankings(tbl) == sortByRankAsc(listRankingsFrom(tbl, 1))

ReadRankings(j) ==
  /\ FreeSlot(j)
  /\ jobs' = [ jobs EXCEPT ![j] = [ IdleJob EXCEPT !.pc = "done", !.kind = "read",
                                                   !.listed = listRankings(chefs) ] ]
  /\ UNCHANGED << calc, chefs, weightRows, snapshots, entries, now, left, last >>

\* the response is sent; the request's locals are gone
Return(j) ==
  /\ jobs[j].pc \in { "done", "failed", "rejected" }
  /\ jobs' = [ jobs EXCEPT ![j] = IdleJob ]
  /\ UNCHANGED << calc, chefs, weightRows, snapshots, entries, now, left, last >>

(***************************************************************************)
(* The scoring functions on their own: getWeights, calculateBreakdown and  *)
(* calculateTotalScore applied to one chef and one ScoringWeight table.    *)
(***************************************************************************)
MaxAccolades == 2
MaxSignals == 4
MaxPeers == 5

RecentTick == StartTick - 1
OldTick == StartTick - (WindowYears + 1) * TicksPerYear

\* accolades: by type, detail, year (null, before, at and after the cutoff year; every
\* writer stores `year || null`, so a stored year is never 0) and creation instant
\* (inside or outside the window)
AccoladeIn ==
  { [ type |-> "MICHELIN_STAR", detail |-> Some(Str3Stars),
      year |-> Some(StartYear - WindowYears), createdAt |-> OldTick ],
    [ type |-> "MICHELIN_STAR", detail |-> Null, year |-> Null, createdAt |-> RecentTick ],
    [ type |-> "OTHER", detail |-> Null,
      year |-> Some(StartYear - WindowYears - 1), createdAt |-> RecentTick ],
    [ type |-> "JAMES_BEARD", detail |-> Null,
      year |-> Some(StartYear - WindowYears - 1), createdAt |-> RecentTick ],
    [ type |-> "WORLDS_50_BEST", detail |-> Null, year |-> Null, createdAt |-> OldTick ],
    [ type |-> "OTHER", detail |-> Null, year |-> Some(StartYear), createdAt |-> OldTick ],
    [ type |-> "MICHELIN_STAR", detail |-> Some(Str2Stars),
      year |-> Some(StartYear), createdAt |-> RecentTick ],
    [ type |-> "MICHELIN_STAR", detail |-> Some(StrTop3),
      year |-> Some(StartYear), createdAt |-> RecentTick ] }

AccoladeLists ==
  UNION { [ 1..n -> AccoladeIn ] : n \in 0..MaxAccolades }

CareerLists ==
  { << >>,
    << [ isCurrent |-> TRUE, startYear |-> Null, endYear |-> Null,
         role |-> "Executive Chef", createdAt |-> OldTick ] >>,
    << [ isCurrent |-> FALSE, startYear |-> Some(StartYear - WindowYears - 5),
         endYear |-> Some(StartYear - WindowYears), role |-> "Line Cook",
         createdAt |-> OldTick ] >> }

\* n records that are all r
Copies(n, r) == [ k \in 1..n |-> r ]

SignalValues == { 0 - 1000000, 600000 }
SignalLists ==
  { Copies(n, [ platform |-> "instagram", value |-> Some(v), createdAt |-> RecentTick ]) :
      n \in 0..MaxSignals, v \in SignalValues }

PeerLists ==
  { Copies(n, [ type |-> "MENTORED", createdAt |-> RecentTick ]) : n \in { 0, MaxPeers } }

YearsIn == { Null, Some(0 - 10), Some(30) }

CalcChefs ==
  [ accolades : AccoladeLists, careerEntries : CareerLists, publicSignals : SignalLists,
    peerStandings : PeerLists, yearsExperience : YearsIn ]

\* ScoringWeight tables: rows for the four categories and for one that is none of
\* them, with any number as weight (PUT /api/scoring stores what it is sent)
RowCategories == CategorySet \cup { "other" }
WeightValues == { Null, Some(0 - 100), Some(150) }
CalcRows == [ RowCategories -> WeightValues ]

\* chefs whose breakdowns the totals are worked out for
CalcTotalChefs ==
  { ch \in CalcChefs :
      /\ Len(ch.accolades) \in { 0, MaxAccolades }
      /\ \A k \in 1..Len(ch.accolades) : ch.accolades[k].type = "MICHELIN_STAR"
                                            /\ ~IsNull(ch.accolades[k].detail)
      /\ Len(ch.careerEntries) = 0
      /\ Len(ch.publicSignals) \in { 0, MaxSignals }
      /\ Len(ch.peerStandings) = 0 }

CalcGetWeights ==
  /\ calc.phase = "input"
  /\ calc' = [ calc EXCEPT !.phase = "weights", !.weights = getWeights(calc.rows) ]
  /\ UNCHANGED << chefs, weightRows, snapshots, entries, now, jobs, left, last >>

CalcBreakdown ==
  /\ calc.phase = "weights"
  /\ calc' = [ calc EXCEPT !.phase = "breakdown",
                           !.michelin = scoreMichelinStars(recentAccoladesOf(calc.chef, now)),
                           !.breakdown = calculateBreakdown(calc.chef, now) ]
  /\ UNCHANGED << chefs, weightRows, snapshots, entries, now, jobs, left, last >>

CalcTotal ==
  /\ calc.phase = "breakdown"
  /\ calc' = [ calc EXCEPT !.phase = "total",
                           !.total = calculateTotalScore(calc.breakdown, calc.weights) ]
  /\ UNCHANGED << chefs, weightRows, snapshots, entries, now, jobs, left, last >>

\* scoreRecalculationTest, steps 1 to 3: a chef with at most one accolade is given a
\* three-star accolade of the current year and calculateChefScore is called
TestAccolade(t) ==
  [ type |-> "MICHELIN_STAR", detail |-> Some(Str3Stars),
    year |-> Some(getFullYear(t)), createdAt |-> t ]

CalcAddStar ==
  /\ calc.phase = "total"
  /\ Len(calc.chef.accolades) <= 1
  /\ LET chef == [ calc.chef EXCEPT !.accolades = Append(@, TestAccolade(now)) ]
     IN calc' = [ calc EXCEPT !.phase = "boosted", !.chef = chef,
                              !.boosted = calculateTotalScore(calculateBreakdown(chef, now),
                                                              calc.weights) ]
  /\ UNCHANGED << chefs, weightRows, snapshots, entries, now, jobs, left, last >>

\* ChefDetailPage: the chef is fetched and its breakdown worked out in the browser
ViewProfile ==
  /\ calc.phase # "none"
  /\ IsNull(calc.shown)
  /\ calc' = [ calc EXCEPT !.shown = Some(calculateBreakdownClient(findChefBySlug(calc.chef))) ]
  /\ UNCHANGED << chefs, weightRows, snapshots, entries, now, jobs, left, last >>

NextCalc ==
  \/ CalcGetWeights
  \/ CalcBreakdown
  \/ CalcTotal
  \/ CalcAddStar
  \/ ViewProfile

NoBudget == [ edits |-> 0, puts |-> 0, recalcs |-> 0, publishes |-> 0, ticks |-> 0 ]

\* every chef of CalcChefs under the default weights
InitBreakdown ==
  /\ InitTables
  /\ left = NoBudget
  /\ \E ch \in CalcChefs :
       calc = [ NoCalc EXCEPT !.phase = "input", !.chef = ch ]

SpecBreakdown == InitBreakdown /\ [][NextCalc]_vars

\* every ScoringWeight table of CalcRows with the chefs of CalcTotalChefs
InitWeights ==
  /\ InitTables
  /\ left = NoBudget
  /\ \E ch \in CalcTotalChefs, rows \in CalcRows :
       calc = [ NoCalc EXCEPT !.phase = "input", !.chef = ch, !.rows = rows ]

SpecWeights == InitWeights /\ [][NextCalc]_vars

\* chefs holding at most one accolade, under every table of the four categories
BoostWeightValues == { Null, Some(0 - 100), Some(0), Some(1), Some(150) }
BoostChefs ==
  { ch \in CalcChefs :
      /\ Len(ch.accolades) <= 1
      /\ Len(ch.careerEntries) = 0
      /\ Len(ch.publicSignals) = 0
      /\ Len(ch.peerStandings) = 0 }

InitBoost ==
  /\ InitTables
  /\ left = NoBudget
  /\ \E ch \in BoostChefs, rows \in [ CategorySet -> BoostWeightValues ] :
       calc = [ NoCalc EXCEPT !.phase = "input", !.chef = ch, !.rows = rows ]

SpecBoost == InitBoost /\ [][NextCalc]_vars

(***************************************************************************)
(* Specifications.  Each one takes the routes its properties are about and *)
(* starts with the number of requests it allows of each kind.              *)
(***************************************************************************)
One == { 1 }

\* ranking routes, two requests at a time
InitRank ==
  /\ InitStore
  /\ left = [ edits |-> MaxEdits, puts |-> MaxPuts, recalcs |-> MaxRecalcs,
              publishes |-> 0, ticks |-> 0 ]

NextRank ==
  \/ \E c \in ChefIds : CreateChef(c)
  \/ \E c \in ChefIds : ArchiveChef(c)
  \/ \E c \in ChefIds, p \in ProfileIds : EditRecords(c, p)
  \/ \E j \in Jobs : StartRecalculate(j)
  \/ \E j \in Jobs : RecalcList(j)
  \/ \E j \in Jobs : RecalcScore(j)
  \/ \E j \in Jobs : RecalcWrite(j)
  \/ \E j \in Jobs, b \in 1..Len(WeightBodies) : StartPutWeights(j, b)
  \/ \E j \in Jobs : PutUpsert(j)
  \/ \E j \in Jobs : PutGet(j)
  \/ \E j \in Jobs : Return(j)

SpecRank == InitRank /\ [][NextRank]_vars

\* ranking routes one request after the other, with the clock running
InitClock ==
  /\ InitStore
  /\ left = [ edits |-> MaxEdits, puts |-> MaxPuts, recalcs |-> MaxRecalcs,
              publishes |-> 0, ticks |-> MaxTicks ]

NextClock ==
  \/ \E c \in ChefIds : CreateChef(c)
  \/ \E c \in ChefIds : ArchiveChef(c)
  \/ \E c \in ChefIds, p \in ProfileIds : EditRecords(c, p)
  \/ Tick
  \/ \E j \in One : StartRecalculate(j)
  \/ \E j \in One : RecalcList(j)
  \/ \E j \in One : RecalcScore(j)
  \/ \E j \in One : RecalcWrite(j)
  \/ \E j \in One, b \in 1..Len(WeightBodies) : StartPutWeights(j, b)
  \/ \E j \in One : PutUpsert(j)
  \/ \E j \in One : PutGet(j)
  \/ \E j \in One : Return(j)

SpecClock == InitClock /\ [][NextClock]_vars

\* publishing, one request after the other
InitSnap ==
  /\ InitStore
  /\ left = [ edits |-> MaxEdits, puts |-> 0, recalcs |-> 0,
              publishes |-> MaxPublishes, ticks |-> 0 ]

NextSnap ==
  \/ \E c \in ChefIds : CreateChef(c)
  \/ \E c \in ChefIds : ArchiveChef(c)
  \/ \E c \in ChefIds, p \in ProfileIds : EditRecords(c, p)
  \/ \E j \in One, m \in MonthIds, n \in NotesIn : StartPublish(j, m, n)
  \/ \E j \in One : RecalcScore(j)
  \/ \E j \in One : RecalcWrite(j)
  \/ \E j \in One : SnapList(j)
  \/ \E j \in One : SnapWeights(j)
  \/ \E j \in One : SnapPrev(j)
  \/ \E j \in One : SnapUpsert(j)
  \/ \E j \in One : SnapDelete(j)
  \/ \E j \in One : SnapCreate(j)
  \/ \E j \in One : Return(j)

SpecSnap == InitSnap /\ [][NextSnap]_vars

\* publishing, two requests at a time
InitOverlap ==
  /\ InitStore
  /\ left = [ edits |-> 0, puts |-> 0, recalcs |-> 0,
              publishes |-> MaxOverlapPublishes, ticks |-> 0 ]

NextOverlap ==
  \/ \E c \in ChefIds : CreateChef(c)
  \/ \E c \in ChefIds : ArchiveChef(c)
  \/ \E j \in Jobs, m \in MonthIds, n \in NotesIn : StartPublish(j, m, n)
  \/ \E j \in Jobs : RecalcScore(j)
  \/ \E j \in Jobs : RecalcWrite(j)
  \/ \E j \in Jobs : SnapList(j)
  \/ \E j \in Jobs : SnapWeights(j)
  \/ \E j \in Jobs : SnapPrev(j)
  \/ \E j \in Jobs : SnapUpsert(j)
  \/ \E j \in Jobs : SnapDelete(j)
  \/ \E j \in Jobs : SnapCreate(j)
  \/ \E j \in Jobs : Return(j)

SpecOverlap == InitOverlap /\ [][NextOverlap]_vars

\* publishing with the clock running and any notes, one request after the other
InitHistory ==
  /\ InitStore
  /\ left = [ edits |-> 0, puts |-> 0, recalcs |-> 0,
              publishes |-> MaxOverlapPublishes, ticks |-> MaxTicks ]

NextHistory ==
  \/ \E c \in ChefIds : CreateChef(c)
  \/ \E c \in ChefIds : ArchiveChef(c)
  \/ Tick
  \/ \E j \in One, m \in MonthIds \cup MalformedIds, n \in NotesAll : StartPublish(j, m, n)
  \/ \E j \in One, m \in MonthIds \cup MalformedIds, n \in NotesAll : RejectPublish(j, m, n)
  \/ \E j \in One : RecalcScore(j)
  \/ \E j \in One : RecalcWrite(j)
  \/ \E j \in One : SnapList(j)
  \/ \E j \in One : SnapWeights(j)
  \/ \E j \in One : SnapPrev(j)
  \/ \E j \in One : SnapUpsert(j)
  \/ \E j \in One : SnapDelete(j)
  \/ \E j \in One : SnapCreate(j)
  \/ \E j \in One : Return(j)

SpecHistory == InitHistory /\ [][NextHistory]_vars

\* every kind of request, one after the other
InitLedger ==
  /\ InitStore
  /\ left = [ edits |-> MaxEdits, puts |-> MaxPuts, recalcs |-> MaxLedgerRecalcs,
              publishes |-> MaxOverlapPublishes, ticks |-> 0 ]

NextLedger ==
  \/ \E c \in ChefIds : CreateChef(c)
  \/ \E c \in ChefIds : ArchiveChef(c)
  \/ \E c \in ChefIds, p \in ProfileIds : EditRecords(c, p)
  \/ \E j \in One : StartRecalculate(j)
  \/ \E j \in One : RecalcList(j)
  \/ \E j \in One : RecalcScore(j)
  \/ \E j \in One : RecalcWrite(j)
  \/ \E j \in One, b \in 1..Len(WeightBodies) : StartPutWeights(j, b)
  \/ \E j \in One : PutUpsert(j)
  \/ \E j \in One : PutGet(j)
  \/ \E j \in One, m \in MonthIds, n \in NotesIn : StartPublish(j, m, n)
  \/ \E j \in One : SnapList(j)
  \/ \E j \in One : SnapWeights(j)
  \/ \E j \in One : SnapPrev(j)
  \/ \E j \in One : SnapUpsert(j)
  \/ \E j \in One : SnapDelete(j)
  \/ \E j \in One : SnapCreate(j)
  \/ \E j \in One : Return(j)

SpecLedger == InitLedger /\ [][NextLedger]_vars

\* recalculations, and readers of the rankings at any moment
InitRead ==
  /\ InitStore
  /\ left = [ edits |-> MaxEdits, puts |-> 0, recalcs |-> MaxRecalcs,
              publishes |-> 0, ticks |-> 0 ]

NextRead ==
  \/ \E c \in ChefIds : CreateChef(c)
  \/ \E c \in ChefIds : ArchiveChef(c)
  \/ \E c \in ChefIds, p \in ProfileIds : EditRecords(c, p)
  \/ \E j \in Jobs : StartRecalculate(j)
  \/ \E j \in Jobs : RecalcScore(j)
  \/ \E j \in Jobs : RecalcWrite(j)
  \/ \E j \in Jobs : ReadRankings(j)
  \/ \E j \in Jobs : Return(j)

SpecRead == InitRead /\ [][NextRead]_vars

\* recalculations whose store calls can reject
InitFail ==
  /\ InitStore
  /\ left = [ edits |-> MaxEdits, puts |-> 0, recalcs |-> MaxRecalcs,
              publishes |-> 0, ticks |-> 0 ]

NextFail ==
  \/ \E c \in ChefIds : CreateChef(c)
  \/ \E c \in ChefIds : ArchiveChef(c)
  \/ \E c \in ChefIds, p \in ProfileIds : EditRecords(c, p)
  \/ \E j \in Jobs : StartRecalculate(j)
  \/ \E j \in Jobs : StartRecalculateFails(j)
  \/ \E j \in Jobs : RecalcScore(j)
  \/ \E j \in Jobs : RecalcWeightsFail(j)
  \/ \E j \in Jobs : RecalcWrite(j)
  \/ \E j \in Jobs : RecalcWriteFails(j)
  \/ \E j \in Jobs : Return(j)

SpecFail == InitFail /\ [][NextFail]_vars

\* one publish interleaved with a weight update, a record edit and the clock
InitWeave ==
  /\ InitStore
  /\ left = [ edits |-> MaxEdits, puts |-> MaxPuts, recalcs |-> 0,
              publishes |-> MaxWeavePublishes, ticks |-> MaxTicks ]

NextWeave ==
  \/ \E c \in ChefIds : CreateChef(c)
  \/ \E c \in ChefIds, p \in ProfileIds : EditRecords(c, p)
  \/ Tick
  \/ \E j \in Jobs, b \in 1..Len(WeightBodies) : StartPutWeights(j, b)
  \/ \E j \in Jobs : PutUpsert(j)
  \/ \E j \in Jobs : PutGet(j)
  \/ \E j \in Jobs, m \in One, n \in NotesIn : StartPublish(j, m, n)
  \/ \E j \in Jobs : RecalcList(j)
  \/ \E j \in Jobs : RecalcScore(j)
  \/ \E j \in Jobs : RecalcWrite(j)
  \/ \E j \in Jobs : SnapList(j)
  \/ \E j \in Jobs : SnapWeights(j)
  \/ \E j \in Jobs : SnapPrev(j)
  \/ \E j \in Jobs : SnapUpsert(j)
  \/ \E j \in Jobs : SnapDelete(j)
  \/ \E j \in Jobs : SnapCreate(j)
  \/ \E j \in Jobs : Return(j)

SpecWeave == InitWeave /\ [][NextWeave]_vars

\* publishing and republishing with entry writes that can fail
InitRepublish ==
  /\ InitStore
  /\ left = [ edits |-> 0, puts |-> 0, recalcs |-> 0,
              publishes |-> MaxOverlapPublishes, ticks |-> MaxTicks ]

NextRepublish ==
  \/ \E c \in ChefIds : CreateChef(c)
  \/ \E c \in ChefIds : ArchiveChef(c)
  \/ Tick
  \/ \E j \in One, m \in MonthIds, n \in NotesAll : StartPublish(j, m, n)
  \/ \E j \in One : RecalcScore(j)
  \/ \E j \in One : RecalcWrite(j)
  \/ \E j \in One : SnapList(j)
  \/ \E j \in One : SnapWeights(j)
  \/ \E j \in One : SnapPrev(j)
  \/ \E j \in One : SnapUpsert(j)
  \/ \E j \in One : SnapDelete(j)
  \/ \E j \in One : SnapCreate(j)
  \/ \E j \in One : SnapCreateFails(j)
  \/ \E j \in One : Return(j)

SpecRepublish == InitRepublish /\ [][NextRepublish]_vars

\* every route
Next ==
  \/ NextRank
  \/ NextOverlap
  \/ Tick

Spec == Init /\ [][Next]_vars

(***************************************************************************)
(* Properties.                                                             *)
(***************************************************************************)
Active == { c \in ChefIds : chefs[c].created /\ ~chefs[c].isArchived }

\* the recalculation of request j has written its last rank
BatchOver(j) == jobs[j].pc \in { "putGet", "done", "failed" } \cup SnapPcs

NoBatchInFlight == \A j \in Jobs : jobs[j].pc \notin BatchPcs

DenseRanks ==
  /\ \A c \in Active : ~IsNull(chefs[c].rank)
  /\ { RankKey(chefs[c].rank) : c \in Active } = 1..Cardinality(Active)
  /\ \A a, b \in Active : a # b => chefs[a].rank # chefs[b].rank

\* the step is request j writing one chef's total and rank
WritesRank(j) == jobs[j].pc = "write" /\ jobs'[j].k = jobs[j].k + 1

\* the step is the last one of the recalculation of request j
CompletesBatch(j) == jobs[j].pc \in BatchPcs /\ jobs'[j].pc \notin BatchPcs

\* C1 as stated: the moment a recalculation that had no other batch in flight
\* completes, the ranks of the non-archived chefs are exactly 1..N, none null
C1_AsStated ==
  [][ \A j \in Jobs : CompletesBatch(j) /\ jobs'[j].alone => DenseRanks' ]_vars

\* C1: once a recalculation is over that had no other batch in flight and during
\* which no chef was created or archived, the ranks of the non-archived chefs are
\* exactly 1..N, none null, none repeated
C1_DenseRanks ==
  \A j \in Jobs : BatchOver(j) /\ jobs[j].alone /\ jobs[j].roster => DenseRanks

C1_Witness ==
  \E j \in Jobs : /\ jobs[j].pc = "done" /\ jobs[j].kind = "recalc"
                   /\ jobs[j].alone /\ jobs[j].roster
                   /\ Cardinality(Active) = MaxChefs
                   /\ \E a, b \in Active : a # b /\ chefs[a].totalScore = chefs[b].totalScore

RanksFollowScores ==
  \A a, b \in Active :
    ~IsNull(chefs[a].rank) /\ ~IsNull(chefs[b].rank) /\ Val(chefs[a].rank) < Val(chefs[b].rank)
      => chefs[a].totalScore >= chefs[b].totalScore

\* the stored total of every chef the run of j scored is the weighted sum of the
\* breakdown j computed, under the weights j read
TotalsOfBatch(j) ==
  \A k \in 1..Len(jobs[j].scored) :
    chefs[jobs[j].scored[k].id].totalScore =
      calculateTotalScore(jobs[j].scored[k].breakdown, Val(jobs[j].weights))

\* C2 as stated: the moment any recalculation completes, a lower rank never goes
\* with a lower total among non-archived chefs, and the totals are that run's
\* weighted sums
C2_AsStated ==
  [][ \A j \in Jobs : CompletesBatch(j) => RanksFollowScores' /\ TotalsOfBatch(j)' ]_vars

\* C2: once a recalculation that had no other batch in flight is over, a lower rank
\* never goes with a lower total among non-archived chefs, and every total is the
\* weighted sum of that chef's breakdown under the weights that run read
C2_RanksFollowScores ==
  \A j \in Jobs : BatchOver(j) /\ jobs[j].kind # "snapshot" /\ jobs[j].alone
                     => RanksFollowScores /\ TotalsOfBatch(j)

C2_Witness ==
  \E j \in Jobs : /\ jobs[j].pc = "done" /\ jobs[j].alone
                   /\ Len(jobs[j].scored) = MaxChefs
                   /\ Val(jobs[j].weights) # DEFAULT_WEIGHTS
                   /\ \E a, b \in Active : Val(chefs[a].rank) < Val(chefs[b].rank)
                                            /\ a > b
                                            /\ chefs[a].totalScore > chefs[b].totalScore

\* C7: every total a recalculation writes is the weighted sum under the one weight
\* set it read before scoring, whatever has been written to the weights since
C7_SingleWeightRead ==
  [][ \A j \in Jobs :
        WritesRank(j) =>
          LET row == jobs[j].scored[jobs[j].k]
          IN chefs'[row.id].totalScore =
               calculateTotalScore(row.breakdown, Val(jobs[j].weights)) ]_vars

\* a run has written all its totals although the stored weights changed after it read them
C7_Witness ==
  \E j \in Jobs : /\ jobs[j].pc = "done" /\ jobs[j].kind = "recalc"
                   /\ Len(jobs[j].scored) = MaxChefs
                   /\ Val(jobs[j].weights) # getWeights(weightRows)
                   /\ \A k \in 1..Len(jobs[j].scored) :
                        calculateTotalScore(jobs[j].scored[k].breakdown, getWeights(weightRows))
                          # jobs[j].scored[k].total

NoSharedRank ==
  /\ \A a, b \in Active : a # b /\ ~IsNull(chefs[a].rank) => chefs[a].rank # chefs[b].rank
  /\ \A c \in ChefIds : ~IsNull(chefs[c].rank) => Val(chefs[c].rank) > 0

\* C9 as stated: whenever no recalculation is in flight, no two non-archived chefs
\* share a non-null rank and every non-null rank is positive
C9_AsStated == NoBatchInFlight => NoSharedRank

\* C9: whenever no recalculation is in flight and the latest one to complete ran
\* with no other batch in flight, no two non-archived chefs share a non-null rank
\* and every non-null rank is positive
C9_NoSharedRank == NoBatchInFlight /\ last.alone => NoSharedRank

\* two ranked chefs and one unranked or archived one after a recalculation
C9_Witness ==
  /\ NoBatchInFlight
  /\ last.alone
  /\ \E j \in Jobs : jobs[j].pc = "done"
  /\ \E a, b \in Active : a # b /\ ~IsNull(chefs[a].rank) /\ ~IsNull(chefs[b].rank)

\* a month "YYYY-MM" as a number of months
MonthNumber(m) ==
  12 * ReadDigits(SubSeq(Months[m], 1, 4), 0) + ReadDigits(SubSeq(Months[m], 6, 7), 0)

\* the stored snapshot of the latest month before m, 0 when there is none
PriorMonth(m) ==
  LET earlier == { o \in MonthIds : ~IsNull(snapshots[o]) /\ MonthNumber(o) < MonthNumber(m) }
  IN IF earlier = { } THEN 0
     ELSE CHOOSE o \in earlier : \A q \in earlier : MonthNumber(q) <= MonthNumber(o)

\* chef c's entry in the stored snapshot of the latest month before m, if any
PriorEntry(m, c) ==
  IF PriorMonth(m) = 0 THEN Null ELSE entries[Val(snapshots[PriorMonth(m)]).id][c]

\* the step is request j inserting the snapshot entry of one chef
WritesEntry(j) == jobs[j].pc = "sCreate" /\ jobs'[j].k = jobs[j].k + 1

\* C3: an entry written for a chef that has an entry in the prior snapshot carries
\* delta = (rank in the prior snapshot) - (rank in the entry): positive is a climb
C3_DeltaSign ==
  [][ \A j \in Jobs :
        WritesEntry(j) =>
          LET c == jobs[j].listed[jobs[j].k].id
              new == Val(entries'[jobs[j].snapId][c])
              prior == PriorEntry(jobs[j].month, c)
          IN ~IsNull(prior) => new.delta = Some(Val(prior).rank - new.rank) ]_vars

\* one snapshot holds a climb by one place and a fall by one place
C3_Witness ==
  \E m \in MonthIds, a, b \in ChefIds :
    /\ ~IsNull(snapshots[m])
    /\ ~IsNull(entries[Val(snapshots[m]).id][a]) /\ ~IsNull(entries[Val(snapshots[m]).id][b])
    /\ Val(entries[Val(snapshots[m]).id][a]).delta = Some(1)
    /\ Val(entries[Val(snapshots[m]).id][a]).rank = 1
    /\ Val(entries[Val(snapshots[m]).id][b]).delta = Some(0 - 1)
    /\ Val(entries[Val(snapshots[m]).id][b]).rank = 2

\* C4: an entry written for a chef with no entry in the prior snapshot, or when
\* there is no prior snapshot, carries a null delta; a delta of 0 is written only
\* for a chef whose rank equals its rank in the prior snapshot
C4_NullDelta ==
  [][ \A j \in Jobs :
        WritesEntry(j) =>
          LET c == jobs[j].listed[jobs[j].k].id
              new == Val(entries'[jobs[j].snapId][c])
              prior == PriorEntry(jobs[j].month, c)
          IN /\ IsNull(prior) => IsNull(new.delta)
             /\ new.delta = Some(0) => ~IsNull(prior) /\ Val(prior).rank = new.rank ]_vars

\* a snapshot with a prior one holds a chef with delta 0 and a new chef with a null
\* delta, and a snapshot without a prior one holds a null delta
C4_Witness ==
  \E m, o \in MonthIds, a, b \in ChefIds :
    /\ ~IsNull(snapshots[m]) /\ ~IsNull(snapshots[o]) /\ PriorMonth(m) = o /\ PriorMonth(o) = 0
    /\ ~IsNull(entries[Val(snapshots[m]).id][a]) /\ ~IsNull(entries[Val(snapshots[m]).id][b])
    /\ ~IsNull(entries[Val(snapshots[o]).id][a]) /\ IsNull(entries[Val(snapshots[o]).id][b])
    /\ Val(entries[Val(snapshots[m]).id][a]).delta = Some(0)
    /\ IsNull(Val(entries[Val(snapshots[m]).id][b]).delta)
    /\ IsNull(Val(entries[Val(snapshots[o]).id][a]).delta)

\* the snapshot of request j holds one entry for each non-archived chef and no other
EntriesMatchRoster(j) ==
  \A c \in ChefIds : ~IsNull(entries[jobs[j].snapId][c]) <=> c \in Active

\* the step is the last one of the createMonthlySnapshot call of request j
CompletesSnapshot(j) == jobs[j].pc \in SnapPcs /\ jobs'[j].pc = "done"

\* C5 as stated: the moment createMonthlySnapshot returns, its snapshot holds exactly
\* one entry for each chef that is non-archived then, and none for any other chef
C5_AsStated ==
  [][ \A j \in Jobs : CompletesSnapshot(j) => EntriesMatchRoster(j)' ]_vars

\* C5: once a createMonthlySnapshot call has returned that had no other batch or
\* snapshot call in flight and during which no chef was created or archived, its
\* snapshot holds exactly one entry for each non-archived chef and none for any other
C5_OneEntryPerChef ==
  \A j \in Jobs :
    jobs[j].pc = "done" /\ jobs[j].kind = "snapshot" /\ jobs[j].alone /\ jobs[j].roster
      => EntriesMatchRoster(j)

\* a month republished after the roster changed: the chef archived since the first
\* publish has no entry any more, the chef created since has one
C5_Witness ==
  \E j \in Jobs, a, b \in ChefIds :
    /\ jobs[j].pc = "done" /\ jobs[j].kind = "snapshot" /\ jobs[j].alone /\ jobs[j].roster
    /\ left.publishes = 0
    /\ Cardinality({ m \in MonthIds : ~IsNull(snapshots[m]) }) = 1
    /\ chefs[a].isArchived /\ ~IsNull(chefs[a].rank) /\ IsNull(entries[jobs[j].snapId][a])
    /\ b \in Active /\ ~IsNull(entries[jobs[j].snapId][b])

\* the run of request j was not disturbed and neither was the one before it, and
\* nothing changed between the two
SecondCleanRun(j) ==
  /\ BatchOver(j)
  /\ jobs[j].alone /\ jobs[j].roster /\ jobs[j].quiet
  /\ ~IsNull(jobs[j].base)

SameResults(j) ==
  \A c \in ChefIds : Val(jobs[j].base).res[c] = << chefs[c].totalScore, chefs[c].rank >>

\* C6 as stated: a recalculation that follows another one, with no change to any
\* chef record, archive flag or weight since the first began, leaves every chef
\* the total and the rank the first one left
C6_AsStated ==
  \A j \in Jobs : SecondCleanRun(j) => SameResults(j)

SameWindow(t, u) == cutoffYearAt(t) = cutoffYearAt(u) /\ cutoffDateAt(t) = cutoffDateAt(u)

\* C6: a recalculation that follows another one, with no change to any chef record,
\* archive flag or weight since the first began and with the same 10-year window
\* cutoffs (cutoff year and cutoff date) in both, leaves every chef the total and
\* the rank the first one left
C6_Idempotent ==
  \A j \in Jobs :
    SecondCleanRun(j) /\ SameWindow(Val(jobs[j].base).at, jobs[j].scoredAt) => SameResults(j)

\* a second clean run over two chefs with equal totals, one of them holding an
\* accolade that has left the window
C6_Witness ==
  \E j \in Jobs :
    /\ SecondCleanRun(j) /\ SameWindow(Val(jobs[j].base).at, jobs[j].scoredAt)
    /\ jobs[j].pc = "done"
    /\ Len(jobs[j].scored) = MaxChefs
    /\ \E c \in Active : chefs[c].recs = 2
    /\ \E a, b \in Active : a # b /\ chefs[a].totalScore = chefs[b].totalScore

\* the step is one of request j's own
StepOf(j) == jobs'[j].pc # jobs[j].pc \/ jobs'[j].k # jobs[j].k

\* C8: no step of a recalculation or of a snapshot call changes the total or the
\* rank of a chef that was archived when the call began, nor gives it a snapshot entry
C8_ArchivedFrozen ==
  [][ \A j \in Jobs :
        Tracking(j) /\ StepOf(j) =>
          \A c \in jobs[j].archivedAtStart :
            /\ chefs'[c].totalScore = chefs[c].totalScore
            /\ chefs'[c].rank = chefs[c].rank
            /\ \A s \in MonthIds : IsNull(entries[s][c]) => IsNull(entries'[s][c]) ]_vars

\* a snapshot call has returned that began with a ranked chef archived: the chef
\* keeps its rank next to the new ranks and has no entry in the snapshot
C8_Witness ==
  \E j \in Jobs, c \in ChefIds, d \in Active :
    /\ jobs[j].pc = "done" /\ jobs[j].kind = "snapshot"
    /\ c \in jobs[j].archivedAtStart
    /\ ~IsNull(chefs[c].rank) /\ chefs[c].rank = chefs[d].rank
    /\ IsNull(entries[jobs[j].snapId][c]) /\ ~IsNull(entries[jobs[j].snapId][d])

\* the step is request j looking up the previous snapshot
FindsPrev(j) == jobs[j].pc = "sPrev" /\ jobs'[j].pc = "sUpsert"

\* C10: the snapshot a createMonthlySnapshot call takes the previous ranks from is
\* the stored one of the greatest month strictly before the target month, never
\* one of the same or a later month, and none when no earlier month is stored
C10_PrevSnapshot ==
  [][ \A j \in Jobs :
        FindsPrev(j) =>
          LET pm == jobs'[j].prevMonth
              m == jobs[j].month
              earlier == { o \in MonthIds :
                             ~IsNull(snapshots[o]) /\ MonthNumber(o) < MonthNumber(m) }
          IN /\ pm = 0 <=> earlier = { }
             /\ pm # 0 => /\ pm \in earlier
                          /\ \A o \in earlier : MonthNumber(o) <= MonthNumber(pm)
             /\ \A c \in ChefIds :
                  jobs'[j].prevRankMap[c] =
                    (IF pm = 0 \/ IsNull(entries[Val(snapshots[pm]).id][c]) THEN Null
                     ELSE Some(Val(entries[Val(snapshots[pm]).id][c]).rank)) ]_vars

\* the middle month is published while an earlier and a later month are stored:
\* the earlier one is taken
C10_Witness ==
  \E j \in Jobs :
    /\ jobs[j].pc = "sUpsert" /\ jobs[j].month = 2
    /\ ~IsNull(snapshots[1]) /\ ~IsNull(snapshots[3])
    /\ jobs[j].prevMonth = 1
    /\ \E c \in ChefIds : ~IsNull(jobs[j].prevRankMap[c])

\* the step is request j upserting the MonthlySnapshot row of its month
UpsertsRow(j) == jobs[j].pc = "sUpsert" /\ jobs'[j].pc = "sDelete"

\* C11: the upsert of createMonthlySnapshot leaves one row per month, each with its
\* own id; for a month that is stored already it returns the id of the stored row
\* and changes nothing of it but the notes and the publish time, and it touches
\* the row of no other month
C11_OneRowPerMonth ==
  [][ \A j \in Jobs :
        UpsertsRow(j) =>
          LET m == jobs[j].month
              new == Val(snapshots'[m])
          IN /\ ~IsNull(snapshots'[m])
             /\ jobs'[j].snapId = new.id
             /\ \A o \in MonthIds \ { m } : snapshots'[o] = snapshots[o]
             /\ \A o \in MonthIds \ { m } : ~IsNull(snapshots[o]) => Val(snapshots[o]).id # new.id
             /\ ~IsNull(snapshots[m]) =>
                  /\ new.id = Val(snapshots[m]).id
                  /\ new.publishedAt = now
                  /\ new.notes = (IF IsNull(jobs[j].notes) THEN Val(snapshots[m]).notes
                                  ELSE jobs[j].notes) ]_vars

\* a month is being republished a tick after its first publish, with other notes:
\* the row has kept its id and the entries of the first publish are still there
C11_Witness ==
  \E j \in Jobs, c \in ChefIds :
    /\ jobs[j].pc = "sDelete" /\ jobs[j].snapId = 1
    /\ left.publishes = MaxOverlapPublishes - 2
    /\ Cardinality({ m \in MonthIds : ~IsNull(snapshots[m]) }) = 1
    /\ ~IsNull(entries[1][c])
    /\ Val(snapshots[jobs[j].month]).notes = Some("o")
    /\ Val(snapshots[jobs[j].month]).publishedAt = StartTick + 1

\* the string is four digits, a dash and two digits
IsYearMonth(s) ==
  /\ Len(s) = 7
  /\ \A i \in { 1, 2, 3, 4, 6, 7 } : s[i] \in { Digits[d] : d \in 1..10 }
  /\ s[5] = "-"

\* C12: a publish request whose month is not four digits, a dash and two digits is
\* answered with the validation error without any step of its own but that answer:
\* no recalculation begins, and no chef, weight, snapshot or entry row changes
C12_MonthValidated ==
  [][ \A j \in Jobs :
        StepOf(j) /\ jobs'[j].kind = "snapshot" /\ ~IsYearMonth(MonthText(jobs'[j].month))
          => /\ jobs[j].pc = "idle" /\ jobs'[j].pc = "rejected"
             /\ UNCHANGED << chefs, weightRows, snapshots, entries >> ]_vars

\* a request with a month one digit too long has been refused while a snapshot is stored
C12_Witness ==
  \E j \in Jobs, m \in MonthIds, c \in ChefIds :
    /\ jobs[j].pc = "rejected"
    /\ MonthText(jobs[j].month) = MalformedMonths[3]
    /\ ~IsNull(snapshots[m]) /\ ~IsNull(entries[Val(snapshots[m]).id][c])

\* the step is request j scoring and sorting the chefs it listed
ScoresBatch(j) == jobs[j].pc = "score" /\ jobs'[j].pc # "score"

\* position of chef c in the listing l
PosIn(l, c) == CHOOSE k \in 1..Len(l) : l[k].id = c

BreakdownFields == { "formalAccolades", "careerTrack", "publicSignals", "peerStanding" }

\* C14 as stated: each of the four fields calculateBreakdown returns lies in
\* [0, 100] (0..1000 tenths), whatever the records and their numeric values
C14_AsStated ==
  calc.phase \in { "breakdown", "total" }
    => \A f \in BreakdownFields : 0 <= calc.breakdown[f] /\ calc.breakdown[f] <= 1000

\* C15: getWeights returns exactly the four categories; each one holds the stored
\* weight where the table has a row for it and the default (0.35, 0.25, 0.15,
\* 0.25) where it has none; rows of other categories change nothing, and the
\* values are returned as stored, without being scaled to sum to 1
C15_GetWeights ==
  calc.phase # "input" =>
    /\ DOMAIN calc.weights
         = { "formalAccolades", "careerTrack", "publicSignals", "peerStanding" }
    /\ \A c \in DOMAIN calc.weights :
         calc.weights[c]
           = IF ~IsNull(calc.rows[c]) THEN Val(calc.rows[c])
             ELSE [ formalAccolades |-> 35, careerTrack |-> 25,
                    publicSignals |-> 15, peerStanding |-> 25 ][c]

WeightSum(w) == w.formalAccolades + w.careerTrack + w.publicSignals + w.peerStanding

C15_Witness ==
  /\ calc.phase = "weights"
  /\ "other" \in DOMAIN calc.rows /\ ~IsNull(calc.rows["other"])
  /\ ~IsNull(calc.rows["formalAccolades"])
  /\ IsNull(calc.rows["careerTrack"])
  /\ WeightSum(calc.weights) # 100

\* the step is the response of the weight update j
CompletesPut(j) == jobs[j].pc = "putGet" /\ jobs'[j].pc = "done"

\* every non-archived chef's stored total is the weighted sum of the breakdown of
\* its records under the stored weights
WeightedTotals ==
  \A c \in Active :
    chefs[c].totalScore
      = calculateTotalScore(calculateBreakdown(Profiles[chefs[c].recs], now),
                            getWeights(weightRows))

\* C16 as stated: the moment a weight update completes, every non-archived chef's
\* total is the weighted sum under the stored weights and the ranks follow them
C16_AsStated ==
  [][ \A j \in Jobs :
        CompletesPut(j) => WeightedTotals' /\ DenseRanks' /\ RanksFollowScores' ]_vars

\* C16: once a weight update has completed during whose recalculation no other
\* recalculation was in flight, and as long as since that recalculation began no
\* chef was created or archived and no record or weight was changed by another
\* request, every non-archived chef's total is the weighted sum of its breakdown
\* under the stored weights, and the ranks are 1..N in the order of those totals
C16_WeightUpdate ==
  \A j \in Jobs :
    /\ jobs[j].kind = "put" /\ jobs[j].pc = "done"
    /\ jobs[j].alone /\ jobs[j].roster /\ jobs[j].quiet
    => WeightedTotals /\ DenseRanks /\ RanksFollowScores

C16_Witness ==
  \E j \in Jobs :
    /\ jobs[j].kind = "put" /\ jobs[j].pc = "done"
    /\ jobs[j].alone /\ jobs[j].roster /\ jobs[j].quiet
    /\ Cardinality(Active) = MaxChefs
    /\ \E c \in Active :
         chefs[c].totalScore
           # calculateTotalScore(calculateBreakdown(Profiles[chefs[c].recs], now),
                                 DEFAULT_WEIGHTS)

\* the entry of chef c in the snapshot of month m, Null when there is none
EntryOf(m, c) ==
  IF IsNull(snapshots[m]) THEN Null ELSE entries[Val(snapshots[m]).id][c]

\* a createMonthlySnapshot call for month m is under way
Publishing(m) == \E j \in Jobs : jobs[j].kind = "snapshot" /\ jobs[j].month = m

\* C17 as stated: no step of any request removes the snapshot entry of an
\* archived chef
C17_AsStated ==
  [][ \A m \in MonthIds, c \in ChefIds :
        ~IsNull(EntryOf(m, c)) /\ chefs[c].isArchived => ~IsNull(EntryOf(m, c)') ]_vars

\* C17: a snapshot entry of an archived chef is kept as it is by every step of a
\* recalculation and of a createMonthlySnapshot call for another month
C17_EntryKept ==
  [][ \A m \in MonthIds, c \in ChefIds :
        ~IsNull(EntryOf(m, c)) /\ chefs[c].isArchived /\ ~Publishing(m)
          => EntryOf(m, c)' = EntryOf(m, c) ]_vars

\* an archived chef still has its entry after a later month was published without it
\* and a recalculation was run
C17_Witness ==
  \E m, o \in MonthIds, c \in ChefIds :
    /\ chefs[c].isArchived
    /\ ~IsNull(EntryOf(m, c))
    /\ ~IsNull(snapshots[o]) /\ Val(snapshots[o]).id > Val(snapshots[m]).id
    /\ IsNull(EntryOf(o, c))
    /\ \E d \in ChefIds : ~IsNull(EntryOf(o, d))
    /\ left.recalcs = 0
    /\ \A j \in Jobs : jobs[j].pc = "idle"

\* C18: a step of a createMonthlySnapshot call changes neither the snapshot row nor
\* any entry (rank, totalScore, breakdown, delta) of a month other than its own,
\* and a step of any other request (recalculation, weight update, record edit,
\* chef creation or archiving) changes no MonthlySnapshot and no SnapshotEntry row
C18_AppendOnly ==
  [][ /\ \A m \in MonthIds :
           ~Publishing(m) =>
             /\ snapshots'[m] = snapshots[m]
             /\ \A c \in ChefIds : EntryOf(m, c)' = EntryOf(m, c)
      /\ (\A j \in Jobs : jobs[j].kind # "snapshot")
           => snapshots' = snapshots /\ entries' = entries ]_vars

\* two months are published, then a weight update, a recalculation and a record
\* edit have run, and an entry still holds a total the chef no longer has
C18_Witness ==
  /\ Cardinality({ m \in MonthIds : ~IsNull(snapshots[m]) }) = MaxOverlapPublishes
  /\ left.edits = 0 /\ left.puts = 0 /\ left.recalcs = 0
  /\ \A j \in Jobs : jobs[j].pc = "idle"
  /\ \A m \in MonthIds :
       ~IsNull(snapshots[m]) =>
         \E c \in ChefIds : /\ ~IsNull(EntryOf(m, c))
                            /\ Val(EntryOf(m, c)).totalScore # chefs[c].totalScore

\* the rule of the claim: a set year decides alone, createdAt only when there is none
CountsAt(a, t) ==
  IF ~IsNull(a.year) THEN Val(a.year) >= getFullYear(t) - 10
  ELSE a.createdAt >= t - 10 * TicksPerYear

\* the accolades of s the rule counts, each redated to the instant t
RECURSIVE CountedAt(_, _)
CountedAt(s, t) ==
  IF Len(s) = 0 THEN << >>
  ELSE (IF CountsAt(s[1], t)
          THEN << [ s[1] EXCEPT !.year = Some(getFullYear(t)), !.createdAt = t ] >>
          ELSE << >>)
       \o CountedAt(Tail(s), t)

\* C19: the breakdown is the one of the chef holding only the accolades that
\* count under the rule: year >= currentYear - 10 when the year is set, whatever
\* createdAt is, and createdAt >= now - 10 years when there is no year
C19_AccoladeWindow ==
  calc.phase \in { "breakdown", "total" } =>
    calc.breakdown
      = calculateBreakdown([ calc.chef EXCEPT !.accolades = CountedAt(@, now) ], now)

\* one accolade dated currentYear - 10 and created outside the window counts, one
\* dated currentYear - 11 and created inside it does not
C19_Witness ==
  /\ calc.phase = "breakdown"
  /\ Len(calc.chef.accolades) = 2
  /\ calc.chef.accolades[1].year = Some(getFullYear(now) - 10)
  /\ calc.chef.accolades[1].createdAt < now - 10 * TicksPerYear
  /\ calc.chef.accolades[2].year = Some(getFullYear(now) - 11)
  /\ calc.chef.accolades[2].createdAt >= now - 10 * TicksPerYear
  /\ calc.breakdown.formalAccolades = 1000

\* C20 as stated: a total above 100 (1000 tenths) is returned only when the four
\* weights sum to more than 1 (100 hundredths)
C20_AsStated ==
  calc.phase = "total" /\ calc.total > 1000 => WeightSum(calc.weights) > 100

\* C20: under weights none of which is negative, a total above 100 is returned
\* only when the four weights sum to more than 1
C20_TotalAbove100 ==
  /\ calc.phase = "total"
  /\ \A c \in CategorySet : calc.weights[c] >= 0
  /\ calc.total > 1000
  => WeightSum(calc.weights) > 100

\* a total above 100 under weights none of which is negative, for a breakdown
\* one field of which is below 0
C20_Witness ==
  /\ calc.phase = "total"
  /\ \A c \in CategorySet : calc.weights[c] >= 0
  /\ calc.total > 1000
  /\ \E f \in BreakdownFields : calc.breakdown[f] < 0

\* some in-window MICHELIN_STAR accolade of the chef has a detail holding ch
MichelinDetailHas(ch) ==
  LET recent == recentAccoladesOf(calc.chef, now)
  IN \E k \in 1..Len(recent) :
       /\ recent[k].type = "MICHELIN_STAR"
       /\ ~IsNull(recent[k].detail)
       /\ \E i \in 1..Len(Val(recent[k].detail)) : Val(recent[k].detail)[i] = ch

HasMichelin ==
  LET recent == recentAccoladesOf(calc.chef, now)
  IN \E k \in 1..Len(recent) : recent[k].type = "MICHELIN_STAR"

\* C21 as stated: the Michelin component is 100 when an in-window MICHELIN_STAR
\* accolade has a detail containing "3", else 70 when one has a detail containing
\* "2", else 40 when there is an in-window MICHELIN_STAR accolade, else 0
C21_AsStated ==
  calc.phase \in { "breakdown", "total" } =>
    calc.michelin = IF MichelinDetailHas("3") THEN 100
                    ELSE IF MichelinDetailHas("2") THEN 70
                    ELSE IF HasMichelin THEN 40
                    ELSE 0

ReadsRankings(r) == jobs[r].pc = "idle" /\ jobs'[r].kind = "read"

\* what was read is the table as the run j found it
ReadIsPrior(rows, j) ==
  \A k \in 1..Len(rows) :
    << rows[k].totalScore, rows[k].rank >> = jobs[j].prior[rows[k].id]

\* what was read holds, for every chef the run j ranks, the total and rank of j
ReadIsNew(rows, j) ==
  \A i \in 1..Len(jobs[j].scored) :
    \E k \in 1..Len(rows) :
      /\ rows[k].id = jobs[j].scored[i].id
      /\ rows[k].totalScore = jobs[j].scored[i].total
      /\ rows[k].rank = Some(i)

\* C23 as stated: a reader of the rankings, while the only recalculation in flight
\* is writing over ranks a previous batch assigned and no chef is created or
\* archived meanwhile, reads either the table of the previous batch or the table
\* of the new one, never a mixture
C23_AsStated ==
  [][ \A r, j \in Jobs :
        /\ ReadsRankings(r)
        /\ jobs[j].pc = "write" /\ jobs[j].alone /\ jobs[j].roster
        /\ \A i \in 1..Len(jobs[j].scored) :
             ~IsNull(jobs[j].prior[jobs[j].scored[i].id][2])
        => ReadIsPrior(jobs'[r].listed, j) \/ ReadIsNew(jobs'[r].listed, j) ]_vars

\* C24: once a recalculateAll call is over that ran with nothing else interleaved
\* (no other batch, no chef created or archived, no record or weight written),
\* whatever earlier overlapping runs left behind, the non-archived chefs hold the
\* ranks 1..N in the order of their totals, and the totals are the weighted sums
\* under the stored weights
C24_Convergence ==
  \A j \in Jobs :
    /\ jobs[j].kind = "recalc" /\ jobs[j].pc = "done"
    /\ jobs[j].alone /\ jobs[j].roster /\ jobs[j].quiet
    => DenseRanks /\ RanksFollowScores /\ WeightedTotals

\* the run found two non-archived chefs on one rank, left by overlapping runs
C24_Witness ==
  \E j \in Jobs :
    /\ jobs[j].kind = "recalc" /\ jobs[j].pc = "done"
    /\ jobs[j].alone /\ jobs[j].roster /\ jobs[j].quiet
    /\ jobs[j].heals
    /\ Cardinality(Active) = MaxChefs

\* the recalculation of request j was rejected by a write of its loop
FailedWriting(j) ==
  jobs[j].kind = "recalc" /\ jobs[j].pc = "failed" /\ Len(jobs[j].scored) > 0

\* the chefs j wrote before position k hold its totals and ranks, the others what
\* they held when j began
PartialTable(j) ==
  \A i \in 1..Len(jobs[j].scored) :
    LET id == jobs[j].scored[i].id
    IN << chefs[id].totalScore, chefs[id].rank >>
         = IF i < jobs[j].k THEN << jobs[j].scored[i].total, Some(i) >>
           ELSE jobs[j].prior[id]

\* the table holds what a run over the stored records and weights writes
UnfailedTable ==
  LET scored == sortByTotalDesc(scoreChefs(listActiveChefs(chefs), getWeights(weightRows), now))
  IN \A i \in 1..Len(scored) :
       /\ chefs[scored[i].id].totalScore = scored[i].total
       /\ chefs[scored[i].id].rank = Some(i)

\* C25: after a write of the loop was rejected (nothing else interleaved), the
\* chefs written before it hold the new total and rank and the others the old
\* ones; and once a later recalculation has completed alone, with no chef, record
\* or weight changed since the rejected run began, the table is the one a run that
\* was not rejected writes
C25_PartialThenRepaired ==
  \A f \in Jobs :
    FailedWriting(f) /\ jobs[f].roster /\ jobs[f].quiet =>
      /\ jobs[f].alone => PartialTable(f)
      /\ \A j \in Jobs :
           /\ jobs[j].kind = "recalc" /\ jobs[j].pc = "done"
           /\ jobs[j].alone /\ jobs[j].roster /\ jobs[j].quiet
           => UnfailedTable

\* a run was rejected after its first write of two, and a later run has repaired
C25_Witness ==
  \E f, j \in Jobs :
    /\ FailedWriting(f) /\ jobs[f].roster /\ jobs[f].quiet
    /\ jobs[f].k = 2 /\ Len(jobs[f].scored) = MaxChefs
    /\ jobs[j].kind = "recalc" /\ jobs[j].pc = "done"
    /\ jobs[j].alone /\ jobs[j].roster /\ jobs[j].quiet
    /\ UnfailedTable

\* C26: a step of a recalculateAll call that has not obtained both the chefs and
\* the weights, the rejection of either read included, changes no chef's total or
\* rank; the call never goes back to reading, and a rejected call does nothing more
C26_ReadFailure ==
  [][ \A j \in Jobs :
        jobs'[j].kind = "recalc" /\ StepOf(j) =>
          /\ IsNull(jobs'[j].weights) =>
               \A c \in ChefIds : /\ chefs'[c].totalScore = chefs[c].totalScore
                                  /\ chefs'[c].rank = chefs[c].rank
          /\ jobs'[j].pc # "list"
          /\ jobs[j].pc = "score" /\ IsNull(jobs'[j].weights) => jobs'[j].pc = "failed"
          /\ jobs[j].pc = "failed" => jobs'[j].pc = "idle" ]_vars

\* one call was rejected by findMany and one by getWeights after it had listed
\* every chef
C26_Witness ==
  \E f, j \in Jobs :
    /\ jobs[f].kind = "recalc" /\ jobs[f].pc = "failed"
    /\ IsNull(jobs[f].weights) /\ Len(jobs[f].listed) = 0
    /\ jobs[j].kind = "recalc" /\ jobs[j].pc = "failed"
    /\ IsNull(jobs[j].weights) /\ Len(jobs[j].listed) = MaxChefs

\* the entry request j writes in this step carries the chef's stored total, and no
\* entry of its snapshot with a better rank carries a lower total
EntryFollowsStore(j) ==
  LET c == jobs[j].listed[jobs[j].k].id
      new == Val(entries'[jobs[j].snapId][c])
  IN /\ new.totalScore = chefs[c].totalScore
     /\ \A d \in ChefIds :
          LET e == entries'[jobs[j].snapId][d]
          IN ~IsNull(e) /\ Val(e).rank < new.rank => Val(e).totalScore >= new.totalScore

\* C27 as stated: every entry createMonthlySnapshot writes carries the chef's stored
\* total and ranks follow totals within the snapshot, whatever is interleaved
C27_AsStated ==
  [][ \A j \in Jobs : WritesEntry(j) => EntryFollowsStore(j) ]_vars

\* C27: an entry written by a createMonthlySnapshot call carries the chef's stored
\* total, and ranks follow totals within the snapshot, when since the call's
\* recalculation began no other batch was in flight, no record or weight was
\* written, and the 10-year window is the one the recalculation scored under
C27_EntryTotals ==
  [][ \A j \in Jobs :
        /\ WritesEntry(j)
        /\ jobs[j].alone /\ jobs[j].quiet
        /\ SameWindow(jobs[j].scoredAt, now)
        => EntryFollowsStore(j) ]_vars

\* a snapshot of two chefs with different totals, published after a weight update
\* and a record edit
C27_Witness ==
  \E j \in Jobs :
    /\ jobs[j].kind = "snapshot" /\ jobs[j].pc = "done"
    /\ jobs[j].alone /\ jobs[j].quiet /\ SameWindow(jobs[j].scoredAt, now)
    /\ left.edits = 0 /\ left.puts = 0
    /\ \E a, b \in ChefIds :
         /\ ~IsNull(entries[jobs[j].snapId][a]) /\ ~IsNull(entries[jobs[j].snapId][b])
         /\ Val(entries[jobs[j].snapId][a]).totalScore
              > Val(entries[jobs[j].snapId][b]).totalScore

\* the chefs holding an entry in the snapshot of request j, and the ranks there
EntryChefs(j) == { c \in ChefIds : ~IsNull(entries[jobs[j].snapId][c]) }
EntryRanks(j) == { Val(entries[jobs[j].snapId][c]).rank : c \in EntryChefs(j) }
EntryRanksDense(j) == EntryRanks(j) = 1..Cardinality(EntryChefs(j))

\* the chef whose entry request j writes in this step has a rank, as listed and
\* as stored
WrittenChefRanked(j) ==
  /\ ~IsNull(jobs[j].listed[jobs[j].k].rank)
  /\ ~IsNull(chefs[jobs[j].listed[jobs[j].k].id].rank)

FailedRepublishing(j) ==
  /\ jobs[j].pc = "failed" /\ jobs[j].kind = "snapshot"
  /\ ~IsNull(jobs[j].earlier)
  /\ ~IsNull(Val(jobs[j].earlier).row)

\* the chefs whose entries request j wrote before it failed
WrittenBefore(j) == { jobs[j].listed[i].id : i \in 1..(jobs[j].k - 1) }

\* C29: after createMonthlySnapshot failed while writing the entries of a month
\* published before, the month has its earlier row with the publish time of the
\* failed call and the notes of the call (the earlier notes when the call gave
\* none), and the month's entries are exactly the ones the call wrote before it
\* failed, each with the rank the call listed
C29_FailedRepublish ==
  \A j \in Jobs :
    FailedRepublishing(j) =>
      LET was == Val(Val(jobs[j].earlier).row)
          row == snapshots[jobs[j].month]
      IN /\ ~IsNull(row)
         /\ Val(row).id = was.id /\ Val(row).id = jobs[j].snapId
         /\ Val(row).publishedAt = Val(jobs[j].earlier).at
         /\ Val(row).notes = IF IsNull(jobs[j].notes) THEN was.notes ELSE jobs[j].notes
         /\ EntryChefs(j) = WrittenBefore(j)
         /\ \A i \in 1..(jobs[j].k - 1) :
              Val(entries[jobs[j].snapId][jobs[j].listed[i].id]).rank
                = Val(jobs[j].listed[i].rank)

\* a republish under other notes at a later time failed on its second entry, and
\* the earlier publish held an entry for a chef the failed call wrote none for
C29_Witness ==
  \E j \in Jobs :
    /\ FailedRepublishing(j)
    /\ jobs[j].k = 2 /\ Len(jobs[j].listed) = 2
    /\ Val(jobs[j].earlier).chefs \ WrittenBefore(j) # { }
    /\ Val(Val(jobs[j].earlier).row).publishedAt < Val(snapshots[jobs[j].month]).publishedAt
    /\ Val(Val(jobs[j].earlier).row).notes # Val(snapshots[jobs[j].month]).notes

\* every accolade, career entry, public signal and peer standing of the chef passes
\* the filter of the 10-year window at time t
PassesWindow(chef, t) ==
  /\ \A k \in 1..Len(chef.accolades) :
       IF Truthy(chef.accolades[k].year)
         THEN Val(chef.accolades[k].year) >= cutoffYearAt(t)
         ELSE chef.accolades[k].createdAt >= cutoffDateAt(t)
  /\ \A k \in 1..Len(chef.careerEntries) :
       LET c == chef.careerEntries[k]
       IN \/ c.isCurrent
          \/ (Truthy(c.startYear) /\ Val(c.startYear) >= cutoffYearAt(t))
          \/ (Truthy(c.endYear) /\ Val(c.endYear) >= cutoffYearAt(t))
          \/ c.createdAt >= cutoffDateAt(t)
  /\ \A k \in 1..Len(chef.publicSignals) : chef.publicSignals[k].createdAt >= cutoffDateAt(t)
  /\ \A k \in 1..Len(chef.peerStandings) : chef.peerStandings[k].createdAt >= cutoffDateAt(t)

\* the profile page and calculateBreakdown have both worked on the same chef
ShownAndRanked ==
  /\ calc.phase \in { "breakdown", "total" }
  /\ ~IsNull(calc.shown)

\* C30: for a chef all of whose accolades, career entries, public signals and peer
\* standings pass the window filter, the breakdown calculateBreakdownClient shows
\* on the profile page equals the one calculateBreakdown returns
C30_ClientBreakdown ==
  ShownAndRanked /\ PassesWindow(calc.chef, now) => Val(calc.shown) = calc.breakdown

\* a chef with two accolades, a career entry, signals and peers, all inside the
\* window, whose four components are all above 0
C30_Witness ==
  /\ ShownAndRanked /\ PassesWindow(calc.chef, now)
  /\ Len(calc.chef.accolades) = 2 /\ Len(calc.chef.careerEntries) = 1
  /\ Len(calc.chef.publicSignals) > 0 /\ Len(calc.chef.peerStandings) > 0
  /\ \A f \in BreakdownFields : Val(calc.shown)[f] > 0
====
